---- MODULE Spec2Model ----
(***************************************************************************)
(* A model of MigrateCalibrationPoints.py (Esri/lrs-migration-toolset):    *)
(* the "Migrate Calibration Points" tool.  One execution of the tool is a  *)
(* fixed sequence of phases (execute, lines 149-211); every phase is one   *)
(* action that applies the whole function the phase calls.                 *)
(*                                                                         *)
(* Numbers.  Measures are fixed-point integers: MeasureUnit model units    *)
(* make one measure unit, and the measure tolerance of the spatial         *)
(* reference is MTolerance model units, so that the value handed to        *)
(* math.isclose as rel_tol and as abs_tol is MTolerance / MeasureUnit.     *)
(* Coordinates are integers of a grid whose unit is the XY tolerance.      *)
(* The measures of the loops and of the calibration points of the          *)
(* catalogue are such that the divisions by 2 and by 3 of the planner are  *)
(* exact.                                                                  *)
(***************************************************************************)
EXTENDS Integers, Sequences, FiniteSets, TLC

VARIABLES
    routes,            \* the network feature class: the route feed, in cursor order
    cps,               \* the calibration point feature class; OBJECTID = index
    pc,                \* position of execute
    run,               \* number of the execution of the tool on this data
    editing,           \* state of the edit session: "none", "open", "saved"
    nanOids,           \* execute: nanOids
    nonMonotonicOids,  \* execute: nonMonotonicOids
    routesWithLoops,   \* execute: routesWithLoops (spans in insertion order)
    intermediateCps,   \* execute: intermediateCpsInLoops
    cpRecordsToAdd,    \* execute: cpRecordsToAdd
    editedRouteOids,   \* execute: editedRouteOids
    editedCps,         \* execute: editedCps (alteredCps of the Z audit)
    editedCpOids,      \* execute: editedCpOids
    report,            \* what WriteLogFile wrote; <<>> when no file was written
    storeFailed,       \* the phases of this run in which arcpy.ExecuteError was raised
    log,               \* history: the edit session calls and row writes of this run
    loopTrace,         \* per route scanned for loops: pointIndex when the scan ended,
                       \* and (history) the vertices at which a span was recorded
    adjIn,             \* AdjustForTimeslices on its own: the records handed in
    adjOut,            \* AdjustForTimeslices on its own: what it returned
    args,              \* a function called on its own: the arguments
    result             \* a function called on its own: what it returned

vars == << routes, cps, pc, run, editing, nanOids, nonMonotonicOids,
           routesWithLoops, intermediateCps, cpRecordsToAdd, editedRouteOids,
           editedCps, editedCpOids, report, storeFailed, log, loopTrace,
                    adjIn, adjOut, args, result >>

execVars == << routes, cps, pc, run, editing, nanOids, nonMonotonicOids,
               routesWithLoops, intermediateCps, cpRecordsToAdd, editedRouteOids,
               editedCps, editedCpOids, report, storeFailed, log, loopTrace >>

----------------------------------------------------------------------------
(* Values *)

\* None of Python: a null date, a null geometry
Null == 0
\* float("nan") as a measure; every comparison with it is false
NaN == -9999
\* datetime.datetime.min and datetime.datetime.max
DateTimeMin == -1
DateTimeMax == 99

\* Tolerance(XYTolerance, ZTolerance, MTolerance) of GetTolerances
XYTolerance == 1
ZTolerance == 1
MTolerance == 1
\* model units per measure unit
MeasureUnit == 12

\* the batch size of the Z audit (1000 in the source), scaled down
BatchLimit == 1
\* the largest number of calibration points in the feature class at the start
MaxCps == 2
\* the largest number of records handed to AdjustForTimeslices on its own
MaxRecs == 3

Abs(x) == IF x < 0 THEN -x ELSE x
Max(a, b) == IF a >= b THEN a ELSE b
Min(a, b) == IF a <= b THEN a ELSE b

IsNaN(m) == m = NaN

\* math.isclose(a, b, rel_tol = relNum / relDen, abs_tol = absTol)
IsClose(a, b, relNum, relDen, absTol) ==
    /\ ~IsNaN(a)
    /\ ~IsNaN(b)
    /\ Abs(a - b) * relDen <= Max(relNum * Max(Abs(a), Abs(b)), absTol * relDen)

\* math.isclose(a, b, rel_tol=tolerances.MTolerance, abs_tol=tolerances.MTolerance)
MClose(a, b) == IsClose(a, b, MTolerance, MeasureUnit, MTolerance)
\* math.isclose(a, b, abs_tol=tolerances.XYTolerance)
XYClose(a, b) == IsClose(a, b, 0, 1, XYTolerance)
\* math.isclose(a, b, abs_tol=tolerances.ZTolerance)
ZClose(a, b) == IsClose(a, b, 0, 1, ZTolerance)

\* a < b and a > b on floats
Lt(a, b) == ~IsNaN(a) /\ ~IsNaN(b) /\ a < b
Gt(a, b) == Lt(b, a)

----------------------------------------------------------------------------
(* Geometry: a polyline is a sequence of parts, a part a sequence of       *)
(* vertices.  The catalogue holds rectilinear polylines only.              *)

V(x, y, z, m) == [X |-> x, Y |-> y, Z |-> z, M |-> m]

\* a loop B..B between measures 12 and 60
GLoop ==
    << << V(0, 0, 0, 0), V(4, 0, 0, 12), V(8, 0, 0, 24), V(8, 4, 0, 36),
          V(4, 4, 0, 48), V(4, 0, 0, 60), V(4, -4, 0, 72) >> >>
\* two loops: 12..60 and 72..120
GTwoLoops ==
    << << V(0, 0, 0, 0), V(4, 0, 0, 12), V(8, 0, 0, 24), V(8, 4, 0, 36),
          V(4, 4, 0, 48), V(4, 0, 0, 60), V(4, -4, 0, 72), V(8, -4, 0, 84),
          V(8, -8, 0, 96), V(4, -8, 0, 108), V(4, -4, 0, 120) >> >>
\* no loop, two parts, equal consecutive measures within and across the parts
GPlain ==
    << << V(0, 8, 0, 0), V(4, 8, 0, 12), V(8, 8, 0, 12) >>,
       << V(12, 8, 0, 12), V(16, 8, 0, 24) >> >>
\* the loop of GLoop with a NaN measure on one vertex
GNaN ==
    << << V(0, 0, 0, 0), V(4, 0, 0, 12), V(8, 0, 0, NaN), V(8, 4, 0, 36),
          V(4, 4, 0, 48), V(4, 0, 0, 60) >> >>
\* the loop of GLoop with a measure that decreases (36 then 24)
GNonMono ==
    << << V(0, 0, 0, 0), V(4, 0, 0, 12), V(8, 0, 0, 36), V(8, 4, 0, 24),
          V(4, 4, 0, 48), V(4, 0, 0, 60) >> >>
\* a loop between measures 252 and 264: one measure unit long, 21 units
\* from the origin of the measures
GBigM ==
    << << V(0, 0, 0, 240), V(4, 0, 0, 252), V(8, 0, 0, 255), V(8, 4, 0, 258),
          V(4, 4, 0, 261), V(4, 0, 0, 264) >> >>

\* a ramp that passes (4, 0) three times, 4 higher each time: no loop
GRamp ==
    << << V(0, 0, 0, 0), V(4, 0, 0, 12), V(8, 0, 1, 24), V(8, 4, 2, 36),
          V(4, 4, 3, 48), V(4, 0, 4, 60), V(8, 0, 5, 72), V(8, 4, 6, 84),
          V(4, 4, 7, 96), V(4, 0, 8, 108) >> >>

\* two parts: the second begins at a measure less than the end of the first
\* and holds a NaN measure after it
GPartsBack ==
    << << V(0, 12, 0, 0), V(4, 12, 0, 12) >>,
       << V(8, 12, 0, 6), V(12, 12, 0, NaN) >> >>

\* the loop of GLoop in two parts, the second begun at the vertex that closes
\* the loop
GLoopParts ==
    << << V(0, 0, 0, 0), V(4, 0, 0, 12), V(8, 0, 0, 24), V(8, 4, 0, 36),
          V(4, 4, 0, 48), V(4, 0, 0, 60) >>,
       << V(4, 0, 0, 60), V(4, -4, 0, 72) >> >>

Geoms ==
    << GLoop, GTwoLoops, GPlain, GNaN, GNonMono, GBigM, GRamp, GPartsBack,
       GLoopParts >>

\* SHAPE@ of a row: a key of the catalogue, or Null
Shape(g) == Geoms[g]

RECURSIVE FlattenFrom(_, _)
FlattenFrom(geom, p) ==
    IF p > Len(geom) THEN << >> ELSE geom[p] \o FlattenFrom(geom, p + 1)
\* for part in geometry: for point in part
Flatten(geom) == FlattenFrom(geom, 1)

----------------------------------------------------------------------------
(* Dates *)

\* CompareDate(date1, date2, lesser, greater)
CompareDate(date1, date2, lesser, greater) ==
    LET d1 == IF date1 = Null THEN DateTimeMax ELSE date1
        d2 == IF date2 = Null THEN DateTimeMax ELSE date2
    IN  IF lesser THEN d1 < d2
        ELSE IF greater THEN d1 > d2
        ELSE d1 = d2

\* Intersects with a null from-date changed to the max date, as CompareDate
\* changes it
IntersectsFromMax(fromDate1, fromDate2, toDate1, toDate2) ==
    LET f1 == IF fromDate1 = Null THEN DateTimeMax ELSE fromDate1
        t1 == IF toDate1 = Null THEN DateTimeMax ELSE toDate1
        f2 == IF fromDate2 = Null THEN DateTimeMax ELSE fromDate2
        t2 == IF toDate2 = Null THEN DateTimeMax ELSE toDate2
    IN  \/ (f1 <= f2 /\ (t2 <= t1 \/ t1 = DateTimeMax))
        \/ (f2 <= f1 /\ (t1 <= t2 \/ t2 = DateTimeMax))

\* Intersects(fromDate1, fromDate2, toDate1, toDate2)
Intersects(fromDate1, fromDate2, toDate1, toDate2) ==
    LET f1 == IF fromDate1 = Null THEN DateTimeMin ELSE fromDate1
        t1 == IF toDate1 = Null THEN DateTimeMax ELSE toDate1
        f2 == IF fromDate2 = Null THEN DateTimeMin ELSE fromDate2
        t2 == IF toDate2 = Null THEN DateTimeMax ELSE toDate2
    IN  \/ (f1 <= f2 /\ (t2 <= t1 \/ t1 = DateTimeMax))
        \/ (f2 <= f1 /\ (t1 <= t2 \/ t2 = DateTimeMax))

----------------------------------------------------------------------------
(* CheckForInvalidRoutes *)

\* the scan that takes a measure equal to the one before it for a decrease
RECURSIVE ScanRouteStrict(_, _, _, _)
ScanRouteStrict(geom, p, k, cur) ==
    IF p > Len(geom) THEN "valid"
    ELSE IF k > Len(geom[p]) THEN ScanRouteStrict(geom, p + 1, 1, cur)
    ELSE LET m == geom[p][k].M
         IN  IF IsNaN(m) THEN "nan"
             ELSE IF cur # << >> /\ m <= cur[1] THEN "nonmonotonic"
             ELSE ScanRouteStrict(geom, p, k + 1, << m >>)

\* the scan of one route with currentValue set to None at every part
RECURSIVE ScanRoutePerPart(_, _, _, _)
ScanRoutePerPart(geom, p, k, cur) ==
    IF p > Len(geom) THEN "valid"
    ELSE IF k > Len(geom[p]) THEN ScanRoutePerPart(geom, p + 1, 1, << >>)
    ELSE LET m == geom[p][k].M
         IN  IF IsNaN(m) THEN "nan"
             ELSE IF cur # << >> /\ Lt(m, cur[1]) THEN "nonmonotonic"
             ELSE ScanRoutePerPart(geom, p, k + 1, << m >>)

\* lines 235-248, the scan of one route: "nan", "nonmonotonic" or "valid".
\* cur is currentValue: << >> for None, << m >> for the measure m
RECURSIVE ScanRoute(_, _, _, _)
ScanRoute(geom, p, k, cur) ==
    IF p > Len(geom) THEN "valid"
    ELSE IF k > Len(geom[p]) THEN ScanRoute(geom, p + 1, 1, cur)
    ELSE LET m == geom[p][k].M
         IN  IF IsNaN(m) THEN "nan"
             ELSE IF cur # << >> /\ Lt(m, cur[1]) THEN "nonmonotonic"
             ELSE ScanRoute(geom, p, k + 1, << m >>)

\* the rows of the cursor from row n on; nan and nonMono are the two lists
RECURSIVE CheckRows(_, _, _, _)
CheckRows(rows, n, nan, nonMono) ==
    IF n > Len(rows) THEN [nan |-> nan, nonMono |-> nonMono]
    ELSE LET row == rows[n]
             verdict == IF row.Geometry = Null THEN "skipped"
                        ELSE ScanRoute(Shape(row.Geometry), 1, 1, << >>)
         IN  CheckRows(rows, n + 1,
                       IF verdict = "nan" THEN Append(nan, row.Oid) ELSE nan,
                       IF verdict = "nonmonotonic" THEN Append(nonMono, row.Oid)
                       ELSE nonMono)

CheckForInvalidRoutes(rows) == CheckRows(rows, 1, << >>, << >>)

InList(x, list) == \E n \in 1..Len(list) : list[n] = x

----------------------------------------------------------------------------
(* GetRoutesWithLoops.  routeInfo, a dictionary from route id to a list of *)
(* spans, is the sequence of all its spans in the order they were          *)
(* appended: the keys in insertion order are the route ids in order of     *)
(* first appearance, and a key's list is the subsequence of its spans.     *)

\* fields.NetworkId of the network feature class: the id of the one network
\* of the run
NetworkId == 1

Span(oid, routeId, fromDate, toDate, fromM, toM, geometry) ==
    [Oid |-> oid, RouteId |-> routeId, FromDate |-> fromDate, ToDate |-> toDate,
     FromM |-> fromM, ToM |-> toM, Network |-> NetworkId, Geometry |-> geometry]

\* the test of lines 300-306 on a seen vertex and the current vertex
IsLoopPair(index, point) ==
    /\ ~IsNaN(index.M)
    /\ ~IsNaN(point.M)
    /\ ~MClose(index.M, point.M)
    /\ XYClose(index.X, point.X)
    /\ XYClose(index.Y, point.Y)
    /\ ZClose(index.Z, point.Z)

\* lines 314-327: alreadyFound
AlreadyFound(info, routeInfo) ==
    \E n \in 1..Len(routeInfo) :
        /\ info.RouteId = routeInfo[n].RouteId
        /\ info.FromDate = routeInfo[n].FromDate
        /\ info.ToDate = routeInfo[n].ToDate
        /\ info.FromM = routeInfo[n].FromM
        /\ info.ToM = routeInfo[n].ToM

\* the scan of pointIndex without the test of alreadyFound
RECURSIVE MatchPointAgain(_, _, _, _, _, _)
MatchPointAgain(row, pts, k, pointIndex, n, routeInfo) ==
    IF n > Len(pointIndex) THEN [loopFound |-> FALSE, routeInfo |-> routeInfo]
    ELSE IF IsLoopPair(pts[pointIndex[n]], pts[k])
         THEN [loopFound |-> TRUE,
               routeInfo |-> Append(routeInfo,
                                    Span(row.Oid, row.RouteId, row.FromDate,
                                         row.ToDate, pts[pointIndex[n]].M, pts[k].M,
                                         row.Geometry))]
    ELSE MatchPointAgain(row, pts, k, pointIndex, n + 1, routeInfo)

\* for index in pointIndex, from the n-th seen vertex on; point is the k-th
\* vertex of the route, and pointIndex holds the positions of the vertices
\* whose (X, Y, Z, M) the list of the code holds
RECURSIVE MatchPoint(_, _, _, _, _, _)
MatchPoint(row, pts, k, pointIndex, n, routeInfo) ==
    IF n > Len(pointIndex) THEN [loopFound |-> FALSE, routeInfo |-> routeInfo]
    ELSE LET index == pts[pointIndex[n]]
             info == Span(row.Oid, row.RouteId, row.FromDate, row.ToDate,
                          index.M, pts[k].M, row.Geometry)
         IN  IF IsLoopPair(index, pts[k]) /\ ~AlreadyFound(info, routeInfo)
             THEN [loopFound |-> TRUE, routeInfo |-> Append(routeInfo, info)]
             ELSE MatchPoint(row, pts, k, pointIndex, n + 1, routeInfo)

RECURSIVE ScanVertices(_, _, _, _, _, _)

\* lines 329-337: the scan goes on after the k-th vertex was matched; found
\* is history, the positions of the vertices at which a span was recorded
AfterMatch(row, pts, k, pointIndex, routeInfo, found, m) ==
    ScanVertices(row, pts, k + 1,
                 IF m.loopFound THEN pointIndex ELSE Append(pointIndex, k),
                 m.routeInfo,
                 IF Len(m.routeInfo) > Len(routeInfo) THEN Append(found, k)
                 ELSE found)

\* the vertices of one route from the k-th on
ScanVertices(row, pts, k, pointIndex, routeInfo, found) ==
    IF k > Len(pts)
    THEN [routeInfo |-> routeInfo,
          trace |-> [Oid |-> row.Oid, pointIndex |-> pointIndex, found |-> found]]
    ELSE IF pointIndex = << >>
         THEN ScanVertices(row, pts, k + 1, << k >>, routeInfo, found)
    ELSE AfterMatch(row, pts, k, pointIndex, routeInfo, found,
                    MatchPoint(row, pts, k, pointIndex, 1, routeInfo))

\* lines 271-281: the rows that are not scanned
SkippedByLoopDetection(row, nan, nonMono) ==
    \/ row.Geometry = Null
    \/ InList(row.Oid, nan)
    \/ InList(row.Oid, nonMono)

RECURSIVE LoopRows(_, _, _, _, _, _)

\* the cursor goes on after a row was scanned
AfterRow(rows, n, nan, nonMono, traces, scan) ==
    LoopRows(rows, n + 1, nan, nonMono, scan.routeInfo, Append(traces, scan.trace))

\* the rows of the cursor from row n on
LoopRows(rows, n, nan, nonMono, routeInfo, traces) ==
    IF n > Len(rows) THEN [routeInfo |-> routeInfo, traces |-> traces]
    ELSE IF SkippedByLoopDetection(rows[n], nan, nonMono)
         THEN LoopRows(rows, n + 1, nan, nonMono, routeInfo, traces)
    ELSE AfterRow(rows, n, nan, nonMono, traces,
                  ScanVertices(rows[n], Flatten(Shape(rows[n].Geometry)), 1, << >>,
                               routeInfo, << >>))

GetRoutesWithLoops(rows, nan, nonMono) ==
    LoopRows(rows, 1, nan, nonMono, << >>, << >>).routeInfo

\* loopedRoutes.keys(): the route ids in insertion order
RECURSIVE KeysFrom(_, _, _)
KeysFrom(routeInfo, n, keys) ==
    IF n > Len(routeInfo) THEN keys
    ELSE KeysFrom(routeInfo, n + 1,
                  IF InList(routeInfo[n].RouteId, keys) THEN keys
                  ELSE Append(keys, routeInfo[n].RouteId))
Keys(routeInfo) == KeysFrom(routeInfo, 1, << >>)

\* loopedRoutes[key]
SpansOf(routeInfo, key) == SelectSeq(routeInfo, LAMBDA s : s.RouteId = key)

----------------------------------------------------------------------------
(* The geometry library (arcpy.Polyline) on rectilinear polylines:         *)
(* distances are lengths along the line, in grid units.                    *)

SegLen(a, b) == Abs(a.X - b.X) + Abs(a.Y - b.Y)

\* float division, rounded down where the quotient is no integer
FloatDiv(a, b) == IF b < 0 THEN (0 - a) \div (0 - b) ELSE a \div b

RECURSIVE PartSegments(_, _, _)
PartSegments(part, k, start) ==
    IF k >= Len(part) THEN << >>
    ELSE << [a |-> part[k], b |-> part[k + 1], start |-> start] >>
         \o PartSegments(part, k + 1, start + SegLen(part[k], part[k + 1]))

RECURSIVE PartLen(_, _)
PartLen(part, k) ==
    IF k >= Len(part) THEN 0
    ELSE SegLen(part[k], part[k + 1]) + PartLen(part, k + 1)

\* the segments of a polyline, each with the distance along the line of its start
RECURSIVE Segments(_, _, _)
Segments(geom, p, start) ==
    IF p > Len(geom) THEN << >>
    ELSE PartSegments(geom[p], 1, start)
         \o Segments(geom, p + 1, start + PartLen(geom[p], 1))

Clamp(v, a, b) == Max(Min(a, b), Min(v, Max(a, b)))

\* the point of a segment at a distance from its start, Z and M interpolated
PointOnSegment(seg, offset) ==
    LET len == SegLen(seg.a, seg.b)
    IN  IF len = 0 THEN seg.a
        ELSE V(seg.a.X + FloatDiv((seg.b.X - seg.a.X) * offset, len),
               seg.a.Y + FloatDiv((seg.b.Y - seg.a.Y) * offset, len),
               seg.a.Z + FloatDiv((seg.b.Z - seg.a.Z) * offset, len),
               IF IsNaN(seg.a.M) \/ IsNaN(seg.b.M) THEN NaN
               ELSE seg.a.M + FloatDiv((seg.b.M - seg.a.M) * offset, len))

\* the distance from the start of a segment of its point nearest to p
NearestOffset(seg, p) ==
    IF seg.a.X = seg.b.X
    THEN Abs(Clamp(p.Y, seg.a.Y, seg.b.Y) - seg.a.Y)
    ELSE Abs(Clamp(p.X, seg.a.X, seg.b.X) - seg.a.X)

SquaredDistance(p, q) == (p.X - q.X) * (p.X - q.X) + (p.Y - q.Y) * (p.Y - q.Y)

\* the elements of a list
Range(list) == { list[n] : n \in 1..Len(list) }

\* the point of a segment nearest to p, and its distance along the line
PointAndDistance(seg, p) ==
    [pt |-> PointOnSegment(seg, NearestOffset(seg, p)),
     dist |-> seg.start + NearestOffset(seg, p)]

\* of the points the segments offer, the nearest to p; of several at one
\* distance from p, the one that comes first along the line
Nearest(candidates, p) ==
    CHOOSE r \in candidates :
        \A q \in candidates :
            \/ SquaredDistance(p, r.pt) < SquaredDistance(p, q.pt)
            \/ /\ SquaredDistance(p, r.pt) = SquaredDistance(p, q.pt)
               /\ r.dist <= q.dist

\* polyline.queryPointAndDistance(p, False): [0] is pt, [1] is dist
QueryPointAndDistance(geom, p) ==
    Nearest({ PointAndDistance(seg, p) : seg \in Range(Segments(geom, 1, 0)) }, p)

\* the segment the distance d along the line falls in: the first such
Holds(seg, d) == seg.start <= d /\ d <= seg.start + SegLen(seg.a, seg.b)

PointOnLine(segs, d) ==
    IF d <= 0 THEN segs[1].a
    ELSE IF \E i \in 1..Len(segs) : Holds(segs[i], d)
    THEN PointOnSegment(
             segs[CHOOSE i \in 1..Len(segs) :
                      Holds(segs[i], d) /\ \A j \in 1..(i - 1) : ~Holds(segs[j], d)],
             d - segs[CHOOSE i \in 1..Len(segs) :
                      Holds(segs[i], d) /\ \A j \in 1..(i - 1) : ~Holds(segs[j], d)].start)
    ELSE segs[Len(segs)].b

\* polyline.segmentAlongLine(start, d, False).lastPoint
PointAtDistance(geom, d) == PointOnLine(Segments(geom, 1, 0), d)

----------------------------------------------------------------------------
(* GetPoint *)

\* lines 921-926: the distance along the line of the point to return
PointDistance(firstVertexDistance, secondVertexDistance, firstVertex, vertex, measure) ==
    FloatDiv((firstVertex.M - measure) * (secondVertexDistance - firstVertexDistance),
             firstVertex.M - vertex.M) + firstVertexDistance

\* lines 918-927: the point between firstVertex and vertex
Interpolate(geom, firstVertex, vertex, measure) ==
    PointAtDistance(geom,
        PointDistance(QueryPointAndDistance(geom, firstVertex).dist,
                      QueryPointAndDistance(geom, vertex).dist,
                      firstVertex, vertex, measure))

\* for vertex in part, from the k-th vertex on
RECURSIVE GetPointFrom(_, _, _, _, _)
GetPointFrom(geom, pts, k, firstVertex, measure) ==
    IF k > Len(pts) THEN firstVertex
    ELSE LET vertex == pts[k]
             first == IF Lt(vertex.M, measure) THEN vertex ELSE firstVertex
         IN  IF MClose(vertex.M, measure) THEN vertex
             ELSE IF Gt(vertex.M, measure) /\ Gt(first.M - vertex.M, 0)
                       /\ ~IsNaN(first.M)
                  THEN Interpolate(geom, first, vertex, measure)
             ELSE GetPointFrom(geom, pts, k + 1, first, measure)

\* GetPoint(routeInfo, measure, tolerances)
GetPoint(routeInfo, measure) ==
    LET geom == Shape(routeInfo.Geometry)
    IN  GetPointFrom(geom, Flatten(geom), 1, geom[1][1], measure)

----------------------------------------------------------------------------
(* GetExistingIntermediateCps.  existingLoopCps, a dictionary from the     *)
(* OBJECTID of a route row to a list, is the sequence of all its entries   *)
(* in the order they were appended.                                        *)

\* lines 375-380: the calibration point row is an intermediate point of the span
IsIntermediateCp(row, routeInfo) ==
    /\ Intersects(row.FromDate, routeInfo.FromDate, row.ToDate, routeInfo.ToDate)
    /\ ~MClose(row.M, routeInfo.FromM)
    /\ ~MClose(row.M, routeInfo.ToM)
    /\ Gt(row.M, routeInfo.FromM)
    /\ Lt(row.M, routeInfo.ToM)

\* for value in loopedRoutes[rowValues.RouteId], from the n-th span on
RECURSIVE ExistingForRow(_, _, _, _)
ExistingForRow(row, spans, n, existing) ==
    IF n > Len(spans) THEN existing
    ELSE ExistingForRow(row, spans, n + 1,
             IF IsIntermediateCp(row, spans[n])
             THEN Append(existing,
                         [Oid |-> spans[n].Oid, RouteId |-> spans[n].RouteId,
                          FromDate |-> spans[n].FromDate, ToDate |-> spans[n].ToDate,
                          FromM |-> row.M, Network |-> spans[n].Network])
             ELSE existing)

RECURSIVE ExistingRows(_, _, _, _)
ExistingRows(cpRows, n, loopedRoutes, existing) ==
    IF n > Len(cpRows) THEN existing
    ELSE LET row == cpRows[n]
         IN  ExistingRows(cpRows, n + 1, loopedRoutes,
                 IF ~InList(row.RouteId, Keys(loopedRoutes)) \/ IsNaN(row.M)
                 THEN existing
                 ELSE ExistingForRow(row, SpansOf(loopedRoutes, row.RouteId), 1,
                                     existing))

GetExistingIntermediateCps(cpRows, loopedRoutes) ==
    ExistingRows(cpRows, 1, loopedRoutes, << >>)

----------------------------------------------------------------------------
(* AdjustForTimeslices *)

\* the Oid that marks a merged record
Dropped == -1

\* records.sort(key=sortFunc) compares the from dates with <, which raises
\* TypeError when one of them is None
SortRaises(records) ==
    Len(records) >= 2 /\ \E n \in 1..Len(records) : records[n].FromDate = Null

\* the stable sort by from date: r is put behind the records not later than it
RECURSIVE Insert(_, _)
Insert(sorted, r) ==
    IF sorted = << >> THEN << r >>
    ELSE IF sorted[Len(sorted)].FromDate <= r.FromDate THEN Append(sorted, r)
    ELSE Append(Insert(SubSeq(sorted, 1, Len(sorted) - 1), r), sorted[Len(sorted)])

RECURSIVE SortFrom(_, _, _)
SortFrom(records, n, sorted) ==
    IF n > Len(records) THEN sorted
    ELSE SortFrom(records, n + 1, Insert(sorted, records[n]))

SortByFromDate(records) == SortFrom(records, 1, << >>)

\* lines 487-491: same measure and same location
SamePlace(tempi, tempj) ==
    /\ MClose(tempi.FromM, tempj.FromM)
    /\ XYClose(tempi.Geometry.X, tempj.Geometry.X)
    /\ XYClose(tempi.Geometry.Y, tempj.Geometry.Y)
    /\ ZClose(tempi.Geometry.Z, tempj.Geometry.Z)

\* lines 497-516 on records i and j; tempi and tempj are the records as they
\* were read at the start of the iterations of i and of j
MergePair(records, tempi, tempj, i, j) ==
    LET r1 == IF /\ CompareDate(tempi.FromDate, tempj.FromDate, FALSE, FALSE)
                 /\ CompareDate(tempi.ToDate, tempj.ToDate, FALSE, FALSE)
              THEN [records EXCEPT ![j].Oid = Dropped]
              ELSE records
        r2 == IF /\ CompareDate(tempj.FromDate, tempi.FromDate, TRUE, FALSE)
                 /\ CompareDate(tempj.ToDate, tempi.FromDate, FALSE, FALSE)
              THEN [r1 EXCEPT ![i].FromDate = tempj.FromDate, ![j].Oid = Dropped]
              ELSE r1
        r3 == IF /\ CompareDate(tempj.ToDate, tempi.ToDate, FALSE, TRUE)
                 /\ CompareDate(tempj.FromDate, tempi.ToDate, FALSE, FALSE)
              THEN [r2 EXCEPT ![i].ToDate = tempj.ToDate, ![j].Oid = Dropped]
              ELSE r2
    IN  r3

\* for j in range(i + 1, len(records)), from j on
RECURSIVE MergeInner(_, _, _, _)
MergeInner(records, tempi, i, j) ==
    IF j > Len(records) THEN records
    ELSE LET tempj == records[j]
         IN  MergeInner(IF tempj.Oid # Dropped /\ SamePlace(tempi, tempj)
                        THEN MergePair(records, tempi, tempj, i, j)
                        ELSE records,
                        tempi, i, j + 1)

\* for i in range(len(records)), from i on
RECURSIVE MergeOuter(_, _)
MergeOuter(records, i) ==
    IF i > Len(records) THEN records
    ELSE MergeOuter(IF records[i].Oid # Dropped
                    THEN MergeInner(records, records[i], i, i + 1)
                    ELSE records,
                    i + 1)

\* records.remove(record): the first element equal to record goes
RECURSIVE RemoveFirst(_, _)
RemoveFirst(records, record) ==
    IF records = << >> THEN << >>
    ELSE IF Head(records) = record THEN Tail(records)
    ELSE << Head(records) >> \o RemoveFirst(Tail(records), record)

\* lines 519-521: for record in records, the list iterator being at idx,
\* while the list is changed under it
RECURSIVE RemoveMerged(_, _)
RemoveMerged(records, idx) ==
    IF idx > Len(records) THEN records
    ELSE RemoveMerged(IF records[idx].Oid = Dropped
                      THEN RemoveFirst(records, records[idx])
                      ELSE records,
                      idx + 1)

\* AdjustForTimeslices(records, tolerances): raised tells a TypeError
AdjustForTimeslices(records) ==
    IF SortRaises(records) THEN [raised |-> TRUE, records |-> << >>]
    ELSE [raised |-> FALSE,
          records |-> RemoveMerged(MergeOuter(SortByFromDate(records), 1), 1)]

----------------------------------------------------------------------------
(* GetCpRecordsToAdd *)

NewRecord(routeInfo, measure) ==
    [Oid |-> routeInfo.Oid, RouteId |-> routeInfo.RouteId,
     FromDate |-> routeInfo.FromDate, ToDate |-> routeInfo.ToDate,
     FromM |-> measure, Network |-> routeInfo.Network,
     Geometry |-> GetPoint(routeInfo, measure)]

\* lines 411-429 and 436-440: newvalue, or onethird and twothrid, for a span
\* given the existing calibration points stored for its route row
NewValues(routeInfo, existingCps) ==
    IF Len(existingCps) = 1
    THEN IF FloatDiv(routeInfo.ToM - routeInfo.FromM, 2) + routeInfo.FromM
                > existingCps[1].FromM
         THEN << FloatDiv(routeInfo.ToM + existingCps[1].FromM, 2) >>
         ELSE << FloatDiv(existingCps[1].FromM + routeInfo.FromM, 2) >>
    ELSE IF Len(existingCps) = 0
    THEN << FloatDiv(routeInfo.ToM - routeInfo.FromM, 3) + routeInfo.FromM,
            FloatDiv(routeInfo.ToM - routeInfo.FromM, 3)
                + FloatDiv(routeInfo.ToM - routeInfo.FromM, 3) + routeInfo.FromM >>
    ELSE << >>

\* lines 404-450: the records planned for one span
RecordsForSpan(routeInfo, cpsInLoops) ==
    [n \in 1..Len(NewValues(routeInfo,
                            SelectSeq(cpsInLoops, LAMBDA e : e.Oid = routeInfo.Oid))) |->
        NewRecord(routeInfo,
                  NewValues(routeInfo,
                            SelectSeq(cpsInLoops, LAMBDA e : e.Oid = routeInfo.Oid))[n])]

RECURSIVE NewRecordsOf(_, _, _)
NewRecordsOf(spans, n, cpsInLoops) ==
    IF n > Len(spans) THEN << >>
    ELSE RecordsForSpan(spans[n], cpsInLoops) \o NewRecordsOf(spans, n + 1, cpsInLoops)

\* lines 452-460: the new records of one key, merged where there are several
Adjusted(newRecords) ==
    IF Len(newRecords) <= 1 THEN [raised |-> FALSE, records |-> newRecords]
    ELSE AdjustForTimeslices(newRecords)

\* recordsToAdd after one key and the keys behind it; a TypeError leaves the
\* function with no list
Join(adjusted, rest) ==
    IF adjusted.raised \/ rest.raised THEN [raised |-> TRUE, records |-> << >>]
    ELSE [raised |-> FALSE, records |-> adjusted.records \o rest.records]

\* for key, routes in loopedRoutes.items(), from the n-th key on
RECURSIVE RecordsOfKeys(_, _, _, _)
RecordsOfKeys(keys, n, loopedRoutes, cpsInLoops) ==
    IF n > Len(keys) THEN [raised |-> FALSE, records |-> << >>]
    ELSE Join(Adjusted(NewRecordsOf(SpansOf(loopedRoutes, keys[n]), 1, cpsInLoops)),
              RecordsOfKeys(keys, n + 1, loopedRoutes, cpsInLoops))

\* GetCpRecordsToAdd(calibrationPointFC, tolerances, loopedRoutes, cpsInLoops)
GetCpRecordsToAdd(loopedRoutes, cpsInLoops) ==
    RecordsOfKeys(Keys(loopedRoutes), 1, loopedRoutes, cpsInLoops)

----------------------------------------------------------------------------
(* GetPointsAtZ.  alteredCps, a dictionary from the OBJECTID of a          *)
(* calibration point to a list of geometries, is the sequence of all its   *)
(* entries in the order they were appended: alteredCps[oid][0] is the      *)
(* first entry of oid.  Route and Rule of an entry are history (the route  *)
(* row the geometry was taken from and the rule that took it); the code    *)
(* keeps the geometry only.                                                *)

Correction(oid, pt, routeOid, rule) ==
    [Oid |-> oid, X |-> pt.X, Y |-> pt.Y, Z |-> pt.Z, Route |-> routeOid, Rule |-> rule]

\* lines 730-733: cp and cpValue are duplicate calibration points
IsDuplicateOf(cp, cpValue) ==
    /\ cp.Oid # cpValue.Oid
    /\ Intersects(cp.FromDate, cpValue.FromDate, cp.ToDate, cpValue.ToDate)
    /\ XYClose(cp.X, cpValue.X)
    /\ XYClose(cp.Y, cpValue.Y)

\* lines 703-739: calibrationDict and duplicateCpDict, as sequences in the order
\* of appending; a key of duplicateCpDict is given its first pair only
RECURSIVE CollectCps(_, _, _, _, _, _)
CollectCps(cpRows, n, batch, routesToIgnore, calibration, duplicates) ==
    IF n > Len(cpRows) THEN [calibration |-> calibration, duplicates |-> duplicates]
    ELSE LET cpValue == cpRows[n]
             skipped == \/ ~InList(cpValue.RouteId, Keys(batch))
                        \/ InList(cpValue.RouteId, routesToIgnore)
                        \/ IsNaN(cpValue.M)
             ofRoute == SelectSeq(calibration, LAMBDA c : c.RouteId = cpValue.RouteId)
             matches == SelectSeq(ofRoute, LAMBDA c : IsDuplicateOf(c, cpValue))
             known == \E k \in 1..Len(duplicates) :
                          duplicates[k].RouteId = cpValue.RouteId
         IN  IF skipped
             THEN CollectCps(cpRows, n + 1, batch, routesToIgnore, calibration,
                             duplicates)
             ELSE CollectCps(cpRows, n + 1, batch, routesToIgnore,
                             Append(calibration, cpValue),
                             IF matches # << >> /\ ~known
                             THEN duplicates \o << matches[1], cpValue >>
                             ELSE duplicates)

\* lines 774-785: alteredCps after the test of the projected point
Projected(cpValue, route, newPoint, altered) ==
    IF /\ XYClose(newPoint.X, cpValue.X)
       /\ XYClose(newPoint.Y, cpValue.Y)
       /\ ~ZClose(newPoint.Z, cpValue.Z)
    THEN Append(altered, Correction(cpValue.Oid, newPoint, route.Oid, "projection"))
    ELSE altered

\* lines 766-785: the projection of one calibration point on the time slices of
\* its route in the batch, from the n-th slice on
RECURSIVE ProjectOn(_, _, _, _)
ProjectOn(cpValue, slices, n, altered) ==
    IF n > Len(slices) THEN altered
    ELSE ProjectOn(cpValue, slices, n + 1,
             IF Intersects(slices[n].FromDate, cpValue.FromDate,
                           slices[n].ToDate, cpValue.ToDate)
             THEN Projected(cpValue, slices[n],
                            QueryPointAndDistance(Shape(slices[n].Geometry), cpValue).pt,
                            altered)
             ELSE altered)

\* lines 742-785: for routeId in calibrationDict, for cpValue in cpValues
RECURSIVE CheckCps(_, _, _, _, _)
CheckCps(ordered, n, batch, duplicates, altered) ==
    IF n > Len(ordered) THEN altered
    ELSE LET cpValue == ordered[n]
             duplicateLocation ==
                 \E k \in 1..Len(duplicates) :
                     /\ duplicates[k].RouteId = cpValue.RouteId
                     /\ duplicates[k].Oid = cpValue.Oid
         IN  CheckCps(ordered, n + 1, batch, duplicates,
                      IF duplicateLocation THEN altered
                      ELSE ProjectOn(cpValue, SpansOf(batch, cpValue.RouteId), 1,
                                     altered))

\* lines 821-854: alteredCps after the vertices found at the place of the pair
Occurrences(firstCp, secondCp, route, found, altered) ==
    IF found = << >> THEN altered
    ELSE IF Len(found) = 1
    THEN Append(altered, Correction(firstCp.Oid, found[1], route.Oid, "duplicate"))
    ELSE Append(Append(altered,
                       Correction(firstCp.Oid, found[1], route.Oid, "duplicate")),
                Correction(secondCp.Oid, found[Len(found)], route.Oid, "duplicate"))

\* lines 814-854: one duplicate pair on the time slices of its route
RECURSIVE AssignOccurrences(_, _, _, _, _)
AssignOccurrences(firstCp, secondCp, slices, n, altered) ==
    IF n > Len(slices) THEN altered
    ELSE AssignOccurrences(firstCp, secondCp, slices, n + 1,
             IF Intersects(slices[n].FromDate, firstCp.FromDate,
                           slices[n].ToDate, firstCp.ToDate)
             THEN Occurrences(firstCp, secondCp, slices[n],
                              SelectSeq(Flatten(Shape(slices[n].Geometry)),
                                        LAMBDA pnt : /\ XYClose(pnt.X, firstCp.X)
                                                     /\ XYClose(pnt.Y, firstCp.Y)),
                              altered)
             ELSE altered)

\* lines 788-854: for routeId in duplicateCpDict; the list of a key holds one
\* pair, at 2k-1 and 2k of the sequence
RECURSIVE HandleDuplicates(_, _, _, _)
HandleDuplicates(duplicates, k, batch, altered) ==
    IF 2 * k > Len(duplicates) THEN altered
    ELSE LET c1 == duplicates[2 * k - 1]
             c2 == duplicates[2 * k]
             firstCp == IF Gt(c1.M, c2.M) THEN c2 ELSE c1
             secondCp == IF Gt(c1.M, c2.M) THEN c1 ELSE c2
         IN  HandleDuplicates(duplicates, k + 1, batch,
                 AssignOccurrences(firstCp, secondCp, SpansOf(batch, c1.RouteId),
                                   1, altered))

\* the values of a dictionary of lists, key by key
RECURSIVE Grouped(_, _, _)
Grouped(list, keys, n) ==
    IF n > Len(keys) THEN << >>
    ELSE SpansOf(list, keys[n]) \o Grouped(list, keys, n + 1)

\* lines 741-854: the two passes over what the search cursor collected
CheckCollected(collected, batch, altered) ==
    HandleDuplicates(collected.duplicates, 1, batch,
        CheckCps(Grouped(collected.calibration, Keys(collected.calibration), 1), 1,
                 batch, collected.duplicates, altered))

\* GetPointsAtZ(calibrationPointPath, calibrationFields, routes, alteredCps,
\*              tolerances, routesToIgnore): alteredCps after the call
GetPointsAtZ(cpRows, batch, altered, routesToIgnore) ==
    CheckCollected(CollectCps(cpRows, 1, batch, routesToIgnore, << >>, << >>),
                   batch, altered)

----------------------------------------------------------------------------
(* GetAdjustZValuesForCalibrationPoints.  routes, a dictionary from route  *)
(* id to the rows of the batch, is the sequence of the rows of the batch.  *)

\* the rows of the route feed from the n-th on
RECURSIVE AuditRows(_, _, _, _, _, _, _)
AuditRows(rows, n, cpRows, nan, altered, batch, routesToIgnore) ==
    IF n > Len(rows)
    THEN IF Len(Keys(batch)) > 0
         THEN GetPointsAtZ(cpRows, batch, altered, routesToIgnore)
         ELSE altered
    ELSE LET row == rows[n]
             filled == Append(batch, row)
         IN  IF row.Geometry = Null \/ IsNaN(Shape(row.Geometry)[1][1].M)
             THEN AuditRows(rows, n + 1, cpRows, nan, altered, batch, routesToIgnore)
             ELSE IF InList(row.Oid, nan)
             THEN AuditRows(rows, n + 1, cpRows, nan, altered, batch,
                            Append(routesToIgnore, row.RouteId))
             ELSE IF Len(Keys(filled)) > BatchLimit
             THEN AuditRows(rows, n + 1, cpRows, nan,
                            GetPointsAtZ(cpRows, filled, altered, routesToIgnore),
                            << >>, routesToIgnore)
             ELSE AuditRows(rows, n + 1, cpRows, nan, altered, filled, routesToIgnore)

GetAdjustZValuesForCalibrationPoints(rows, cpRows, nan) ==
    AuditRows(rows, 1, cpRows, nan, << >>, << >>, << >>)

\* lines 646-687: the batches handed to GetPointsAtZ, in the order of the calls
RECURSIVE Batches(_, _, _, _)
Batches(rows, n, nan, batch) ==
    IF n > Len(rows)
    THEN IF Len(Keys(batch)) > 0 THEN << batch >> ELSE << >>
    ELSE IF rows[n].Geometry = Null \/ IsNaN(Shape(rows[n].Geometry)[1][1].M)
    THEN Batches(rows, n + 1, nan, batch)
    ELSE IF InList(rows[n].Oid, nan)
    THEN Batches(rows, n + 1, nan, batch)
    ELSE IF Len(Keys(Append(batch, rows[n]))) > BatchLimit
    THEN << Append(batch, rows[n]) >> \o Batches(rows, n + 1, nan, << >>)
    ELSE Batches(rows, n + 1, nan, Append(batch, rows[n]))

----------------------------------------------------------------------------
(* WriteToFeature, UpdateCalibrationRecords, WriteLogFile *)

\* the row of the calibration point feature class made of a planned record:
\* the blank row that insertRow created with OBJECTID oid, then populated
CpRow(oid, record) ==
    [Oid |-> oid, RouteId |-> record.RouteId, FromDate |-> record.FromDate,
     ToDate |-> record.ToDate, M |-> record.FromM,
     NetworkId |-> record.Network, X |-> record.Geometry.X,
     Y |-> record.Geometry.Y, Z |-> record.Geometry.Z]

\* the route id of a row whose RouteId field is None
NoRouteId == "None"

\* the coordinates of a row whose SHAPE@ is None
NoShape == -7777

\* the row insertRow([None]) makes
BlankRow(oid) ==
    [Oid |-> oid, RouteId |-> NoRouteId, FromDate |-> Null, ToDate |-> Null,
     M |-> Null, NetworkId |-> Null, X |-> NoShape, Y |-> NoShape, Z |-> NoShape]

\* one cursor that creates and fills, or nulls and sets, a row at a time
CursorOutcomesRowByRow(n) == { o \in (0..n) \X (0..n) : o[2] <= o[1] }

\* how far two cursors over n rows get, one after the other: all the rows, or
\* up to the call at which the store raises arcpy.ExecuteError
CursorOutcomes(n) == { o \in (0..n) \X (0..n) : o[1] = n \/ o[2] = 0 }

\* the rows added when the insert cursor made `inserted` rows and the update
\* cursor filled the first `populated` of them
InsertRows(cpRows, recordsToAdd, inserted, populated) ==
    cpRows \o [i \in 1..inserted |->
                  IF i <= populated THEN CpRow(Len(cpRows) + i, recordsToAdd[i])
                  ELSE BlankRow(Len(cpRows) + i)]

\* the list without the repetitions of its elements, in order of first appearance
RECURSIVE Distinct(_, _, _)
Distinct(list, n, seen) ==
    IF n > Len(list) THEN seen
    ELSE Distinct(list, n + 1, IF InList(list[n], seen) THEN seen ELSE Append(seen, list[n]))

\* WriteToFeature: the feature class after the call, and editedRouteOid (a
\* record's route is noted before its row is inserted); the except clause
\* ends the cursors and the function returns
WriteToFeature(cpRows, recordsToAdd, inserted, populated) ==
    [cps |-> InsertRows(cpRows, recordsToAdd, inserted, populated),
     editedRouteOid |->
         Distinct([n \in 1..Min(inserted + 1, Len(recordsToAdd)) |->
                       recordsToAdd[n].Oid], 1, << >>)]

\* editedCps.keys()
AlteredOids(altered) == Distinct([n \in 1..Len(altered) |-> altered[n].Oid], 1, << >>)

\* editedCps[oid][0]
FirstAltered(altered, oid) ==
    altered[CHOOSE n \in 1..Len(altered) :
                /\ altered[n].Oid = oid
                /\ \A k \in 1..(n - 1) : altered[k].Oid # oid]

\* the rows of the where clause, in cursor order
RowsToUpdate(cpRows, altered) ==
    SelectSeq(cpRows, LAMBDA row : InList(row.Oid, AlteredOids(altered)))

\* the position of a row in the update cursors
CursorPosition(cpRows, altered, oid) ==
    CHOOSE k \in 1..Len(RowsToUpdate(cpRows, altered)) :
        RowsToUpdate(cpRows, altered)[k].Oid = oid

\* UpdateCalibrationRecords: the feature class after the first cursor set the
\* geometry of `nulled` rows to None and the second gave `populated` rows
\* their new geometry
UpdateCalibrationRecords(cpRows, altered, nulled, populated) ==
    [n \in 1..Len(cpRows) |->
        IF ~InList(cpRows[n].Oid, AlteredOids(altered)) THEN cpRows[n]
        ELSE IF CursorPosition(cpRows, altered, cpRows[n].Oid) <= populated
        THEN [cpRows[n] EXCEPT !.X = FirstAltered(altered, cpRows[n].Oid).X,
                               !.Y = FirstAltered(altered, cpRows[n].Oid).Y,
                               !.Z = FirstAltered(altered, cpRows[n].Oid).Z]
        ELSE IF CursorPosition(cpRows, altered, cpRows[n].Oid) <= nulled
        THEN [cpRows[n] EXCEPT !.X = NoShape, !.Y = NoShape, !.Z = NoShape]
        ELSE cpRows[n]]

\* history: a call on the edit session or a write of one row
Event(op, oid) == [op |-> op, oid |-> oid]

\* the writes of two cursors, the first over `first` rows and the second
\* over `second` rows, of the given object ids
CursorEvents(oids, firstOp, first, secondOp, second) ==
    [i \in 1..first |-> Event(firstOp, oids[i])]
        \o [i \in 1..second |-> Event(secondOp, oids[i])]

\* sorted(oids)
RECURSIVE InsertSorted(_, _)
InsertSorted(sorted, x) ==
    IF sorted = << >> THEN << x >>
    ELSE IF sorted[Len(sorted)] <= x THEN Append(sorted, x)
    ELSE Append(InsertSorted(SubSeq(sorted, 1, Len(sorted) - 1), x), sorted[Len(sorted)])

RECURSIVE SortedFrom(_, _, _)
SortedFrom(list, n, sorted) ==
    IF n > Len(list) THEN sorted
    ELSE SortedFrom(list, n + 1, InsertSorted(sorted, list[n]))

Sorted(list) == SortedFrom(list, 1, << >>)

\* WriteLogFile: << >> when no file is written, else the file in a 1-tuple
\* WriteLogFile writing only when a calibration point was added or changed
WriteLogFileWhenEdited(routeOids, cpOids, nan, nonMono) ==
    IF routeOids # << >> \/ cpOids # << >>
    THEN << [routes |-> Sorted(routeOids), cps |-> Sorted(cpOids),
             nan |-> Sorted(nan), nonMonotonic |-> Sorted(nonMono)] >>
    ELSE << >>

WriteLogFile(routeOids, cpOids, nan, nonMono) ==
    IF routeOids # << >> \/ cpOids # << >> \/ nan # << >> \/ nonMono # << >>
    THEN << [routes |-> Sorted(routeOids), cps |-> Sorted(cpOids),
             nan |-> Sorted(nan), nonMonotonic |-> Sorted(nonMono)] >>
    ELSE << >>

----------------------------------------------------------------------------
(* The data the tool is run on *)

RouteRow(oid, routeId, fromDate, toDate, geometry) ==
    [Oid |-> oid, RouteId |-> routeId, FromDate |-> fromDate, ToDate |-> toDate,
     Geometry |-> geometry]

\* the rows a network feature class is made of (geometry: a key of Geoms)
RouteRows ==
    << RouteRow(1, "R1", 1, Null, 1),      \* the loop, one time slice
       RouteRow(2, "R1", 1, 2, 1),         \* the loop, first of two time slices
       RouteRow(3, "R1", 2, Null, 1),      \* the loop, second of two time slices
       RouteRow(4, "R1", 1, Null, 2),      \* two loops
       RouteRow(5, "R2", 1, Null, 3),      \* no loop, two parts
       RouteRow(6, "R2", 1, Null, 4),      \* a NaN measure
       RouteRow(7, "R1", 1, 2, 4),         \* a NaN measure, first of two time slices
       RouteRow(8, "R2", 1, Null, 5),      \* a decreasing measure
       RouteRow(9, "R2", 1, Null, 6),      \* a loop at large measures
       RouteRow(10, "R1", Null, Null, 1),  \* the loop, no from date
       RouteRow(11, "R2", 1, Null, Null),  \* no geometry
       RouteRow(12, "R1", 1, Null, 7),     \* the ramp
       RouteRow(13, "R2", 1, Null, 8),     \* measures going back across parts
       RouteRow(14, "R1", 1, Null, 9)      \* one loop, in two parts
    >>

\* the network feature classes: the time slices of a route id do not overlap
RouteFeeds ==
    { << 1 >>, << 4 >>, << 5 >>, << 6 >>, << 8 >>, << 9 >>, << 10 >>,
      << 2, 3 >>, << 3, 2 >>, << 7, 3 >>, << 3, 7 >>,
      << 1, 5 >>, << 5, 1 >>, << 1, 6 >>, << 1, 8 >>, << 8, 1 >>, << 1, 9 >>,
      << 4, 5 >>, << 11, 1 >>, << 6, 3 >>, << 12 >>,
      << 7, 6 >>, << 13 >>, << 14 >>,
      << 3, 5, 7 >>, << 7, 3, 5 >> }

RouteTable(feed) == [n \in 1..Len(feed) |-> RouteRows[feed[n]]]

Cp(routeId, fromDate, toDate, m, x, y, z) ==
    [RouteId |-> routeId, FromDate |-> fromDate, ToDate |-> toDate, M |-> m,
     X |-> x, Y |-> y, Z |-> z]

\* the calibration points a calibration point feature class is made of
CpRows ==
    << Cp("R1", 1, Null, 24, 8, 0, 0),     \* in the loop 12..60
       Cp("R1", 1, Null, 36, 8, 4, 0),     \* in the loop 12..60
       Cp("R1", 1, Null, 48, 4, 4, 2),     \* in the loop 12..60, Z off the route
       Cp("R1", 1, Null, 56, 4, 1, 0),     \* in the loop 12..60, 4 before its end
       Cp("R1", 1, Null, 84, 8, -4, 0),    \* in the loop 72..120
       Cp("R1", 1, Null, 96, 8, -8, 0),    \* in the loop 72..120
       Cp("R1", 1, Null, 12, 4, 0, 0),     \* at the start of the loop 12..60
       Cp("R1", 1, Null, 60, 4, 0, 0),     \* at the end of the loop 12..60
       Cp("R2", 1, Null, 12, 4, 0, 2),     \* on route R2, Z off the route
       Cp("R1", 1, 3, 30, 8, 2, 2),        \* from 1 to 3, Z off the route
       Cp("R1", 1, Null, NaN, 8, 0, 2),    \* no measure
       Cp("R1", 1, Null, 24, 9, 0, 2),     \* XY within tolerance, Z off the route
       Cp("R1", 1, Null, 57, 4, 2, 0)      \* XY at twice the tolerance of the route
    >>

\* the elements of a set of indices, in increasing order
RECURSIVE Ascending(_)
Ascending(S) ==
    IF S = { } THEN << >>
    ELSE LET least == CHOOSE x \in S : \A y \in S : x <= y
         IN  << least >> \o Ascending(S \ { least })

\* the calibration point feature class made of the catalogue rows picked
CpTable(picked) ==
    [n \in 1..Len(picked) |->
        [Oid |-> n, RouteId |-> CpRows[picked[n]].RouteId,
         FromDate |-> CpRows[picked[n]].FromDate, ToDate |-> CpRows[picked[n]].ToDate,
         M |-> CpRows[picked[n]].M, NetworkId |-> NetworkId,
         X |-> CpRows[picked[n]].X,
         Y |-> CpRows[picked[n]].Y, Z |-> CpRows[picked[n]].Z]]

\* feature classes of more rows: two pairs of calibration points of R1, each
\* pair at one place
LargerCpTables == { << 1, 7, 8, 12 >> }

CpTables ==
    { CpTable(Ascending(S)) :
        S \in { T \in SUBSET (1..Len(CpRows)) : Cardinality(T) <= MaxCps } }
        \cup { CpTable(picked) : picked \in LargerCpTables }

----------------------------------------------------------------------------
(* execute *)

Init ==
    /\ routes \in { RouteTable(feed) : feed \in RouteFeeds }
    /\ cps \in CpTables
    /\ pc = "StartEditSession"
    /\ run = 1
    /\ editing = "none"
    /\ nanOids = << >>
    /\ nonMonotonicOids = << >>
    /\ routesWithLoops = << >>
    /\ intermediateCps = << >>
    /\ cpRecordsToAdd = << >>
    /\ editedRouteOids = << >>
    /\ editedCps = << >>
    /\ editedCpOids = << >>
    /\ report = << >>
    /\ storeFailed = {}
    /\ log = << >>
    /\ loopTrace = << >>
    /\ adjIn = << >>
    /\ adjOut = << >>
    /\ args = << >>
    /\ result = << >>

\* line 171
StartEditSession ==
    /\ pc = "StartEditSession"
    /\ editing' = "open"
    /\ log' = Append(log, Event("startEditing", Null))
    /\ pc' = "CheckForInvalidRoutes"
    /\ UNCHANGED << routes, cps, run, nanOids, nonMonotonicOids, routesWithLoops,
                    intermediateCps, cpRecordsToAdd, editedRouteOids, editedCps,
                    editedCpOids, report, storeFailed, loopTrace,
                    adjIn, adjOut, args, result >>

\* lines 173-175
DoCheckForInvalidRoutes ==
    /\ pc = "CheckForInvalidRoutes"
    /\ \E checked \in { CheckForInvalidRoutes(routes) } :
           /\ nanOids' = checked.nan
           /\ nonMonotonicOids' = checked.nonMono
    /\ pc' = "GetRoutesWithLoops"
    /\ UNCHANGED << routes, cps, run, editing, routesWithLoops, intermediateCps,
                    cpRecordsToAdd, editedRouteOids, editedCps, editedCpOids,
                    report, storeFailed, log, loopTrace,
                    adjIn, adjOut, args, result >>

\* lines 181-184
DoGetRoutesWithLoops ==
    /\ pc = "GetRoutesWithLoops"
    /\ \E scanned \in { LoopRows(routes, 1, nanOids, nonMonotonicOids, << >>, << >>) } :
           /\ routesWithLoops' = scanned.routeInfo
           /\ loopTrace' = scanned.traces
    /\ pc' = IF routesWithLoops' # << >> THEN "GetExistingIntermediateCps"
             ELSE "GetAdjustZValues"
    /\ UNCHANGED << routes, cps, run, editing, nanOids, nonMonotonicOids,
                    intermediateCps, cpRecordsToAdd, editedRouteOids, editedCps,
                    editedCpOids, report, storeFailed, log, adjIn, adjOut, args, result >>

\* lines 186-187
DoGetExistingIntermediateCps ==
    /\ pc = "GetExistingIntermediateCps"
    /\ intermediateCps' = GetExistingIntermediateCps(cps, routesWithLoops)
    /\ pc' = "GetCpRecordsToAdd"
    /\ UNCHANGED << routes, cps, run, editing, nanOids, nonMonotonicOids,
                    routesWithLoops, cpRecordsToAdd, editedRouteOids, editedCps,
                    editedCpOids, report, storeFailed, log, loopTrace,
                    adjIn, adjOut, args, result >>

\* lines 190-191; a TypeError of the sort leaves execute, the edit session open
DoGetCpRecordsToAdd ==
    /\ pc = "GetCpRecordsToAdd"
    /\ \E planned \in { GetCpRecordsToAdd(routesWithLoops, intermediateCps) } :
           /\ cpRecordsToAdd' = planned.records
           /\ pc' = IF planned.raised THEN "raised" ELSE "WriteToFeature"
    /\ UNCHANGED << routes, cps, run, editing, nanOids, nonMonotonicOids,
                    routesWithLoops, intermediateCps, editedRouteOids, editedCps,
                    editedCpOids, report, storeFailed, log, loopTrace,
                    adjIn, adjOut, args, result >>

\* lines 194-195; the store may raise arcpy.ExecuteError at any insertRow or
\* updateRow, which WriteToFeature catches (lines 571-572)
DoWriteToFeature ==
    /\ pc = "WriteToFeature"
    /\ \E o \in CursorOutcomes(Len(cpRecordsToAdd)) :
           /\ \E written \in { WriteToFeature(cps, cpRecordsToAdd, o[1], o[2]) } :
                  /\ cps' = written.cps
                  /\ editedRouteOids' = written.editedRouteOid
           /\ storeFailed' = IF o[2] < Len(cpRecordsToAdd)
                             THEN storeFailed \cup { "WriteToFeature" }
                             ELSE storeFailed
           /\ log' = log \o CursorEvents([i \in 1..o[1] |-> Len(cps) + i],
                                         "insertRow", o[1], "populate", o[2])
    /\ pc' = "GetAdjustZValues"
    /\ UNCHANGED << routes, run, editing, nanOids, nonMonotonicOids, routesWithLoops,
                    intermediateCps, cpRecordsToAdd, editedCps, editedCpOids,
                    report, loopTrace, adjIn, adjOut, args, result >>

\* lines 198-202
DoGetAdjustZValues ==
    /\ pc = "GetAdjustZValues"
    /\ editedCps' = GetAdjustZValuesForCalibrationPoints(routes, cps, nanOids)
    /\ pc' = IF editedCps' # << >> THEN "UpdateCalibrationRecords"
             ELSE "StopEditSession"
    /\ UNCHANGED << routes, cps, run, editing, nanOids, nonMonotonicOids,
                    routesWithLoops, intermediateCps, cpRecordsToAdd, editedRouteOids,
                    editedCpOids, report, storeFailed, log, loopTrace,
                    adjIn, adjOut, args, result >>

\* line 203; the store may raise arcpy.ExecuteError at any updateRow, which
\* UpdateCalibrationRecords catches (lines 888-889)
DoUpdateCalibrationRecords ==
    /\ pc = "UpdateCalibrationRecords"
    /\ \E toUpdate \in { RowsToUpdate(cps, editedCps) } :
       \E o \in CursorOutcomes(Len(toUpdate)) :
           /\ cps' = UpdateCalibrationRecords(cps, editedCps, o[1], o[2])
           /\ storeFailed' = IF o[2] < Len(toUpdate)
                             THEN storeFailed \cup { "UpdateCalibrationRecords" }
                             ELSE storeFailed
           /\ log' = log \o CursorEvents([i \in 1..Len(toUpdate) |-> toUpdate[i].Oid],
                                         "nullGeometry", o[1], "setGeometry", o[2])
    /\ editedCpOids' = AlteredOids(editedCps)
    /\ pc' = "StopEditSession"
    /\ UNCHANGED << routes, run, editing, nanOids, nonMonotonicOids, routesWithLoops,
                    intermediateCps, cpRecordsToAdd, editedRouteOids, editedCps,
                    report, loopTrace, adjIn, adjOut, args, result >>

\* line 206
StopEditSession ==
    /\ pc = "StopEditSession"
    /\ editing' = "saved"
    /\ log' = Append(log, Event("stopEditing", Null))
    /\ pc' = "WriteLogFile"
    /\ UNCHANGED << routes, cps, run, nanOids, nonMonotonicOids, routesWithLoops,
                    intermediateCps, cpRecordsToAdd, editedRouteOids, editedCps,
                    editedCpOids, report, storeFailed, loopTrace,
                    adjIn, adjOut, args, result >>

\* line 209
DoWriteLogFile ==
    /\ pc = "WriteLogFile"
    /\ report' = WriteLogFile(editedRouteOids, editedCpOids, nanOids, nonMonotonicOids)
    /\ pc' = "done"
    /\ UNCHANGED << routes, cps, run, editing, nanOids, nonMonotonicOids,
                    routesWithLoops, intermediateCps, cpRecordsToAdd, editedRouteOids,
                    editedCps, editedCpOids, storeFailed, log, loopTrace,
                    adjIn, adjOut, args, result >>

\* the tool is run a second time on the data a first run without a failure
\* of the store left
ExecuteAgain ==
    /\ pc = "done"
    /\ run = 1
    /\ storeFailed = {}
    /\ log' = << >>
    /\ run' = 2
    /\ pc' = "StartEditSession"
    /\ editing' = "none"
    /\ nanOids' = << >>
    /\ nonMonotonicOids' = << >>
    /\ routesWithLoops' = << >>
    /\ intermediateCps' = << >>
    /\ cpRecordsToAdd' = << >>
    /\ editedRouteOids' = << >>
    /\ editedCps' = << >>
    /\ editedCpOids' = << >>
    /\ report' = << >>
    /\ loopTrace' = << >>
    /\ UNCHANGED << routes, cps, storeFailed, adjIn, adjOut, args, result >>

Next ==
    \/ StartEditSession
    \/ DoCheckForInvalidRoutes
    \/ DoGetRoutesWithLoops
    \/ DoGetExistingIntermediateCps
    \/ DoGetCpRecordsToAdd
    \/ DoWriteToFeature
    \/ DoGetAdjustZValues
    \/ DoUpdateCalibrationRecords
    \/ StopEditSession
    \/ DoWriteLogFile
    \/ ExecuteAgain

Spec == Init /\ [][Next]_vars

----------------------------------------------------------------------------
(* AdjustForTimeslices on its own: the lists of planned records of one     *)
(* route id it can be called with                                          *)

\* the dates a planned record starts at and ends at
AdjFromDates == { Null, 1, 2, 3 }
AdjToDates == { Null, 2, 3 }

\* the two points GetCpRecordsToAdd plans in the loop of GLoop
AdjPoints == { << 28, V(8, 0, 0, 24) >>, << 44, V(4, 4, 0, 48) >> }

\* the planned records of route id R1
AdjRecords ==
    { [Oid |-> 1, RouteId |-> "R1", FromDate |-> ft[1], ToDate |-> ft[2],
       FromM |-> mp[1], Network |-> NetworkId, Geometry |-> mp[2]] :
        ft \in { d \in AdjFromDates \X AdjToDates :
                    d[1] = Null \/ d[2] = Null \/ d[1] < d[2] },
        mp \in AdjPoints }

\* the lists of up to MaxRecs planned records
AdjLists ==
    UNION { [1..n -> AdjRecords] : n \in 1..MaxRecs }

InitAdjust ==
    /\ adjIn \in AdjLists
    /\ adjOut = << >>
    /\ pc = "AdjustForTimeslices"
    /\ routes = << >>
    /\ cps = << >>
    /\ run = 1
    /\ editing = "none"
    /\ nanOids = << >>
    /\ nonMonotonicOids = << >>
    /\ routesWithLoops = << >>
    /\ intermediateCps = << >>
    /\ cpRecordsToAdd = << >>
    /\ editedRouteOids = << >>
    /\ editedCps = << >>
    /\ editedCpOids = << >>
    /\ report = << >>
    /\ storeFailed = {}
    /\ log = << >>
    /\ loopTrace = << >>
    /\ args = << >>
    /\ result = << >>

\* line 457; a TypeError of the sort leaves the call with no list
DoAdjustForTimeslices ==
    /\ pc = "AdjustForTimeslices"
    /\ \E adjusted \in { AdjustForTimeslices(adjIn) } :
           /\ adjOut' = adjusted.records
           /\ pc' = IF adjusted.raised THEN "raised" ELSE "adjusted"
    /\ UNCHANGED << adjIn, routes, cps, run, editing, nanOids, nonMonotonicOids,
                    routesWithLoops, intermediateCps, cpRecordsToAdd, editedRouteOids,
                    editedCps, editedCpOids, report, storeFailed, log, loopTrace, args,
                    result >>

NextAdjust == DoAdjustForTimeslices

SpecAdjust == InitAdjust /\ [][NextAdjust]_vars

----------------------------------------------------------------------------
(* Intersects on its own *)

\* the dates the intervals are made of
Dates == { Null, 1, 2, 3 }

\* the arguments, in the order of the parameters: fromDate1, fromDate2,
\* toDate1, toDate2
InitIntersects ==
    /\ args \in Dates \X Dates \X Dates \X Dates
    /\ result = << >>
    /\ pc = "Intersects"
    /\ adjIn = << >>
    /\ adjOut = << >>
    /\ routes = << >>
    /\ cps = << >>
    /\ run = 1
    /\ editing = "none"
    /\ nanOids = << >>
    /\ nonMonotonicOids = << >>
    /\ routesWithLoops = << >>
    /\ intermediateCps = << >>
    /\ cpRecordsToAdd = << >>
    /\ editedRouteOids = << >>
    /\ editedCps = << >>
    /\ editedCpOids = << >>
    /\ report = << >>
    /\ storeFailed = {}
    /\ log = << >>
    /\ loopTrace = << >>

\* Intersects is called on the two intervals, on the two intervals swapped
\* and on the first interval and itself
DoIntersects ==
    /\ pc = "Intersects"
    /\ result' = [value |-> Intersects(args[1], args[2], args[3], args[4]),
                  swapped |-> Intersects(args[2], args[1], args[4], args[3]),
                  self |-> Intersects(args[1], args[1], args[3], args[3])]
    /\ pc' = "returned"
    /\ UNCHANGED << args, adjIn, adjOut, routes, cps, run, editing, nanOids,
                    nonMonotonicOids, routesWithLoops, intermediateCps,
                    cpRecordsToAdd, editedRouteOids, editedCps, editedCpOids,
                    report, storeFailed, log, loopTrace >>

NextIntersects == DoIntersects

SpecIntersects == InitIntersects /\ [][NextIntersects]_vars

----------------------------------------------------------------------------
(* GetPoint on its own *)

\* the geometries of the catalogue whose measures are numbers that never
\* decrease
ValidGeoms ==
    { g \in 1..Len(Geoms) :
        /\ \A k \in 1..Len(Flatten(Geoms[g])) : ~IsNaN(Flatten(Geoms[g])[k].M)
        /\ \A k \in 1..(Len(Flatten(Geoms[g])) - 1) :
               Flatten(Geoms[g])[k].M <= Flatten(Geoms[g])[k + 1].M }

\* the measures GetPoint is asked for: before, on and beyond the routes
TargetMeasures == (-6)..270

\* the arguments: the geometry of routeInfo and the measure
InitGetPoint ==
    /\ args \in ValidGeoms \X TargetMeasures
    /\ result = << >>
    /\ pc = "GetPoint"
    /\ adjIn = << >>
    /\ adjOut = << >>
    /\ routes = << >>
    /\ cps = << >>
    /\ run = 1
    /\ editing = "none"
    /\ nanOids = << >>
    /\ nonMonotonicOids = << >>
    /\ routesWithLoops = << >>
    /\ intermediateCps = << >>
    /\ cpRecordsToAdd = << >>
    /\ editedRouteOids = << >>
    /\ editedCps = << >>
    /\ editedCpOids = << >>
    /\ report = << >>
    /\ storeFailed = {}
    /\ log = << >>
    /\ loopTrace = << >>

DoGetPoint ==
    /\ pc = "GetPoint"
    /\ result' = GetPoint([Geometry |-> args[1]], args[2])
    /\ pc' = "gotPoint"
    /\ UNCHANGED << args, adjIn, adjOut, routes, cps, run, editing, nanOids,
                    nonMonotonicOids, routesWithLoops, intermediateCps,
                    cpRecordsToAdd, editedRouteOids, editedCps, editedCpOids,
                    report, storeFailed, log, loopTrace >>

NextGetPoint == DoGetPoint

SpecGetPoint == InitGetPoint /\ [][NextGetPoint]_vars

----------------------------------------------------------------------------
(* The vocabulary of the properties *)

\* the time intervals [f1, t1) and [f2, t2) share an instant; a null from
\* date is minus infinity, a null to date plus infinity
SharesInstant(f1, t1, f2, t2) ==
    LET lo1 == IF f1 = Null THEN DateTimeMin ELSE f1
        hi1 == IF t1 = Null THEN DateTimeMax ELSE t1
        lo2 == IF f2 = Null THEN DateTimeMin ELSE f2
        hi2 == IF t2 = Null THEN DateTimeMax ELSE t2
    IN  Max(lo1, lo2) < Min(hi1, hi2)

\* the time interval of p covers that of q
CoversInterval(p, q) ==
    LET lo1 == IF p.FromDate = Null THEN DateTimeMin ELSE p.FromDate
        hi1 == IF p.ToDate = Null THEN DateTimeMax ELSE p.ToDate
        lo2 == IF q.FromDate = Null THEN DateTimeMin ELSE q.FromDate
        hi2 == IF q.ToDate = Null THEN DateTimeMax ELSE q.ToDate
    IN  lo1 <= lo2 /\ hi2 <= hi1

\* the calibration points of the feature class that lie in a loop span: same
\* route, time interval intersecting the slice, measure strictly inside
InsideSpan(cp, span) ==
    /\ cp.RouteId = span.RouteId
    /\ SharesInstant(cp.FromDate, cp.ToDate, span.FromDate, span.ToDate)
    /\ ~IsNaN(cp.M)
    /\ span.FromM < cp.M
    /\ cp.M < span.ToM

PointsInside(span) == { n \in 1..Len(cps) : InsideSpan(cps[n], span) }

\* the existing intermediate points of a span: the points inside it that are
\* farther than the measure tolerance from both of its ends
IntermediatePoints(span) ==
    { n \in PointsInside(span) :
        /\ Abs(cps[n].M - span.FromM) > MTolerance
        /\ Abs(cps[n].M - span.ToM) > MTolerance }

\* the planned records that are for a span: same route, the time slice of the
\* span covered, measure strictly inside the span
PlannedFor(span) ==
    { n \in 1..Len(cpRecordsToAdd) :
        /\ cpRecordsToAdd[n].RouteId = span.RouteId
        /\ CoversInterval(cpRecordsToAdd[n], span)
        /\ span.FromM < cpRecordsToAdd[n].FromM
        /\ cpRecordsToAdd[n].FromM < span.ToM }

PlannedMeasures(span) == { cpRecordsToAdd[n].FromM : n \in PlannedFor(span) }

SpanSet == { routesWithLoops[n] : n \in 1..Len(routesWithLoops) }

\* the planner has returned and nothing is written yet
Planned == pc = "WriteToFeature"

----------------------------------------------------------------------------
(* C1..C4: the planner *)

\* C1: after a run that completes normally, every loop span that was detected
\* has at least two calibration points of its route inside it (time interval
\* intersecting the slice, measure strictly between FromM and ToM), also on a
\* route with more than one loop span.
C1_TwoPointsInEverySpan ==
    pc = "done" => \A span \in SpanSet : Cardinality(PointsInside(span)) >= 2

\* C2: for every loop span with no calibration point inside it, the planner
\* plans exactly two points, at FromM + L/3 and FromM + 2L/3, also for a time
\* slice that owns several loop spans.
C2_TwoPlannedAtThirds ==
    Planned =>
        \A span \in SpanSet :
            PointsInside(span) = { } =>
                /\ Cardinality(PlannedFor(span)) = 2
                /\ \A m \in PlannedMeasures(span) :
                       \/ 3 * (m - span.FromM) = span.ToM - span.FromM
                       \/ 3 * (m - span.FromM) = 2 * (span.ToM - span.FromM)
                /\ Cardinality(PlannedMeasures(span)) = 2

\* C3: for every loop span with exactly one existing intermediate point, at
\* measure E, the planner plans exactly one point, at (ToM + E) / 2 when E is
\* less than the midpoint of the span and at (FromM + E) / 2 otherwise.
C3_OnePlannedAtHalf ==
    Planned =>
        \A span \in SpanSet :
            \A e \in IntermediatePoints(span) :
                IntermediatePoints(span) = { e } =>
                    /\ Cardinality(PlannedFor(span)) = 1
                    /\ \A m \in PlannedMeasures(span) :
                           IF 2 * cps[e].M < span.FromM + span.ToM
                           THEN 2 * m = span.ToM + cps[e].M
                           ELSE 2 * m = span.FromM + cps[e].M

\* C4: for every loop span that already has two or more existing intermediate
\* points the planner plans no point (so the run inserts none for that span).
C4_NothingPlannedForCalibratedSpan ==
    Planned =>
        \A span \in SpanSet :
            Cardinality(IntermediatePoints(span)) >= 2 => PlannedFor(span) = { }

----------------------------------------------------------------------------
(* C5..C7: the validation of the routes and the detection of the loops *)

\* CheckForInvalidRoutes has returned
Validated == pc \notin { "StartEditSession", "CheckForInvalidRoutes" }

\* GetRoutesWithLoops has returned
Scanned == Validated /\ pc # "GetRoutesWithLoops"

\* every measure is a number and no measure is less than the one before it,
\* in vertex order across the parts
NonDecreasing(pts) ==
    /\ \A k \in 1..Len(pts) : ~IsNaN(pts[k].M)
    /\ \A k \in 1..(Len(pts) - 1) : pts[k].M <= pts[k + 1].M

\* a measure is repeated from the last vertex of a part to the first of the next
RepeatsAcrossParts(geom) ==
    \E p \in 1..(Len(geom) - 1) : geom[p][Len(geom[p])].M = geom[p + 1][1].M

Excluded(oid) == InList(oid, nanOids) \/ InList(oid, nonMonotonicOids)

\* C5: CheckForInvalidRoutes puts a route in neither the NaN set nor the
\* non-monotonic set when all its vertex measures are numbers that do not
\* decrease in vertex order across its parts (equal consecutive measures
\* included).
C5_MonotonicRoutesNotExcluded ==
    Validated =>
        \A n \in 1..Len(routes) :
            (/\ routes[n].Geometry # Null
             /\ NonDecreasing(Flatten(Shape(routes[n].Geometry))))
                => ~Excluded(routes[n].Oid)

\* a route with equal consecutive measures, within a part and across two parts,
\* was validated and is in neither set
C5_Witness ==
    /\ pc = "GetRoutesWithLoops"
    /\ \E n \in 1..Len(routes) :
           /\ routes[n].Geometry # Null
           /\ NonDecreasing(Flatten(Shape(routes[n].Geometry)))
           /\ RepeatsAcrossParts(Shape(routes[n].Geometry))
           /\ ~Excluded(routes[n].Oid)

\* C6: a route record of the NaN set or of the non-monotonic set has no loop
\* span and no planned point, and no Z correction is derived from its geometry.
C6_ExcludedRoutesUnused ==
    /\ \A n \in 1..Len(routesWithLoops) : ~Excluded(routesWithLoops[n].Oid)
    /\ \A n \in 1..Len(cpRecordsToAdd) : ~Excluded(cpRecordsToAdd[n].Oid)
    /\ \A n \in 1..Len(editedCps) : ~Excluded(editedCps[n].Route)

\* the pairs of vertices at one location whose measures differ by more than
\* the measure tolerance
LoopPairs(pts) ==
    { pair \in (1..Len(pts)) \X (1..Len(pts)) :
        /\ pair[1] < pair[2]
        /\ XYClose(pts[pair[1]].X, pts[pair[2]].X)
        /\ XYClose(pts[pair[1]].Y, pts[pair[2]].Y)
        /\ ZClose(pts[pair[1]].Z, pts[pair[2]].Z)
        /\ Abs(pts[pair[1]].M - pts[pair[2]].M) > MTolerance }

\* the loop spans returned for a route record
SpansOfRow(oid) == { span \in SpanSet : span.Oid = oid }

\* C7: for a valid route with exactly one pair of vertices at one location
\* (X, Y, Z within tolerance) and measures differing by more than the measure
\* tolerance, GetRoutesWithLoops returns exactly one loop span, from the
\* smaller to the larger of the two measures.
C7_OneSpanForOneLoop ==
    Scanned =>
        \A n \in 1..Len(routes) :
            (/\ routes[n].Geometry # Null
             /\ ~Excluded(routes[n].Oid))
            => LET pts == Flatten(Shape(routes[n].Geometry))
               IN  \A pair \in LoopPairs(pts) :
                       LoopPairs(pts) = { pair } =>
                           /\ Cardinality(SpansOfRow(routes[n].Oid)) = 1
                           /\ \A span \in SpansOfRow(routes[n].Oid) :
                                  /\ span.FromM = Min(pts[pair[1]].M, pts[pair[2]].M)
                                  /\ span.ToM = Max(pts[pair[1]].M, pts[pair[2]].M)

----------------------------------------------------------------------------
(* C8, C10: the Z audit and the second run *)

\* C8: a second run of execute on the data a first run left plans no
\* insertion and records no Z correction, duplicate calibration points at a
\* loop intersection included.
C8_SecondRunDoesNothing ==
    run = 2 => cpRecordsToAdd = << >> /\ editedCps = << >>

\* GetAdjustZValuesForCalibrationPoints has returned and nothing is updated yet
Audited == pc = "UpdateCalibrationRecords" \/ (pc = "StopEditSession" /\ editedCps = << >>)

\* two calibration points of one route at one place at one time
DuplicatePoints(p, q) ==
    /\ p.Oid # q.Oid
    /\ p.RouteId = q.RouteId
    /\ SharesInstant(p.FromDate, p.ToDate, q.FromDate, q.ToDate)
    /\ XYClose(p.X, q.X)
    /\ XYClose(p.Y, q.Y)

\* the valid time slices of the route of a calibration point at its time
SlicesOf(cp) ==
    { n \in 1..Len(routes) :
        /\ routes[n].Geometry # Null
        /\ ~Excluded(routes[n].Oid)
        /\ routes[n].RouteId = cp.RouteId
        /\ SharesInstant(routes[n].FromDate, routes[n].ToDate, cp.FromDate, cp.ToDate) }

\* C10: for a calibration point that has a measure and no duplicate, and a
\* valid time slice of its route at its time, a Z correction of the point
\* holding the point projected on the slice is recorded if and only if the
\* projected point has X and Y within tolerance of the point and a Z farther
\* than the Z tolerance from the Z of the point.
C10_CorrectionIffZOff ==
    Audited =>
        \A k \in 1..Len(cps) :
            (/\ ~IsNaN(cps[k].M)
             /\ \A j \in 1..Len(cps) : ~DuplicatePoints(cps[k], cps[j]))
            => \A n \in SlicesOf(cps[k]) :
                   LET projected == QueryPointAndDistance(Shape(routes[n].Geometry),
                                                          cps[k]).pt
                   IN  (\E c \in 1..Len(editedCps) :
                            /\ editedCps[c].Oid = cps[k].Oid
                            /\ editedCps[c].Route = routes[n].Oid
                            /\ editedCps[c].X = projected.X
                            /\ editedCps[c].Y = projected.Y
                            /\ editedCps[c].Z = projected.Z)
                       <=> (/\ XYClose(projected.X, cps[k].X)
                            /\ XYClose(projected.Y, cps[k].Y)
                            /\ ~ZClose(projected.Z, cps[k].Z))

----------------------------------------------------------------------------
(* C9: the merge of the planned records of the time slices *)

\* two planned records at one place with one measure
Coinciding(p, q) == SamePlace(p, q)

\* C9: AdjustForTimeslices, called with two planned records of one location
\* and one measure whose time intervals touch, [d1, d2) and [d2, d3), returns
\* one record, from d1 to d3; called with two such records of one time
\* interval, it returns one record, of that interval.
C9_TwoRecordsBecomeOne ==
    (/\ pc \in { "adjusted", "raised" }
     /\ Len(adjIn) = 2
     /\ Coinciding(adjIn[1], adjIn[2]))
    => \A i, j \in 1..2 :
           /\ (/\ i # j
               /\ adjIn[i].ToDate # Null
               /\ adjIn[i].ToDate = adjIn[j].FromDate)
              => /\ pc = "adjusted"
                 /\ Len(adjOut) = 1
                 /\ adjOut[1].FromDate = adjIn[i].FromDate
                 /\ adjOut[1].ToDate = adjIn[j].ToDate
                 /\ Coinciding(adjOut[1], adjIn[i])
           /\ (/\ i # j
               /\ adjIn[i].FromDate = adjIn[j].FromDate
               /\ adjIn[i].ToDate = adjIn[j].ToDate)
              => /\ pc = "adjusted"
                 /\ Len(adjOut) = 1
                 /\ adjOut[1].FromDate = adjIn[i].FromDate
                 /\ adjOut[1].ToDate = adjIn[i].ToDate
                 /\ Coinciding(adjOut[1], adjIn[i])

----------------------------------------------------------------------------
(* C11: the duplicate calibration points of the Z audit *)

\* the vertices of a route record at the place of a calibration point, in
\* vertex order
VerticesAt(row, cp) ==
    SelectSeq(Flatten(Shape(row.Geometry)),
              LAMBDA pnt : XYClose(pnt.X, cp.X) /\ XYClose(pnt.Y, cp.Y))

\* a Z correction of a calibration point taken from a vertex of a route record
CorrectedFrom(cp, row, vertex) ==
    \E c \in 1..Len(editedCps) :
        /\ editedCps[c].Oid = cp.Oid
        /\ editedCps[c].Route = row.Oid
        /\ editedCps[c].Z = vertex.Z

\* C11: of two duplicate calibration points (one route, intersecting
\* intervals, X and Y within tolerance) the one of lower measure is given the
\* Z of the first vertex of the route at that place, in vertex order, and the
\* one of higher measure the Z of the second, also on a route that passes the
\* place more than twice.
C11_SecondPointGetsSecondVertex ==
    Audited =>
        \A lo, hi \in 1..Len(cps) :
            (/\ DuplicatePoints(cps[lo], cps[hi])
             /\ ~IsNaN(cps[lo].M) /\ ~IsNaN(cps[hi].M)
             /\ cps[lo].M < cps[hi].M)
            => \A n \in SlicesOf(cps[lo]) :
                   /\ Len(VerticesAt(routes[n], cps[lo])) >= 1
                          => CorrectedFrom(cps[lo], routes[n],
                                           VerticesAt(routes[n], cps[lo])[1])
                   /\ Len(VerticesAt(routes[n], cps[lo])) >= 2
                          => CorrectedFrom(cps[hi], routes[n],
                                           VerticesAt(routes[n], cps[lo])[2])

----------------------------------------------------------------------------
(* C13: a failure of the store *)

\* C13: when the store fails (arcpy.ExecuteError) in WriteToFeature or in
\* UpdateCalibrationRecords the run stops there: no later phase runs, the edit
\* session is not stopped with its edits saved, and no report is written.
C13_StoreFailureStopsRun ==
    /\ "WriteToFeature" \in storeFailed => pc = "GetAdjustZValues"
    /\ "UpdateCalibrationRecords" \in storeFailed => pc = "StopEditSession"
    /\ storeFailed # {} => editing # "saved" /\ report = << >>

----------------------------------------------------------------------------
(* C12, C20: Intersects *)

\* the first and the second interval of a call of Intersects
First == [from |-> args[1], to |-> args[3]]
Second == [from |-> args[2], to |-> args[4]]

\* an interval [from, to) that holds an instant (None: unbounded)
IsInterval(i) == i.from = Null \/ i.to = Null \/ i.from < i.to

\* a starts before b ends
StartsBeforeEnd(a, b) == a.from = Null \/ b.to = Null \/ a.from < b.to

\* C12: Intersects is true of any two intervals that share an instant, also of
\* two that overlap partly, neither holding the other, as [2, None) and
\* [1, 3), in both orders of the arguments.
C12_IntersectsWhenSharingInstant ==
    (/\ pc = "returned"
     /\ IsInterval(First) /\ IsInterval(Second)
     /\ StartsBeforeEnd(First, Second) /\ StartsBeforeEnd(Second, First))
    => result.value /\ result.swapped

\* a from-date is at or before another, None being minus infinity
FromAtOrBefore(a, c) == a = Null \/ (c # Null /\ a <= c)

\* a to-date is at or before another, None being plus infinity
ToAtOrBefore(d, b) == b = Null \/ (d # Null /\ d <= b)

\* i starts at or before j and ends at or after it, or is open
StartsFirstAndOutlasts(i, j) ==
    FromAtOrBefore(i.from, j.from) /\ (ToAtOrBefore(j.to, i.to) \/ i.to = Null)

\* C20: Intersects(a, c, b, d), None read as minus infinity in a from-date and
\* as plus infinity in a to-date, is true exactly when (a <= c and (d <= b or
\* b is open)) or (c <= a and (b <= d or d is open)); it is the same for the
\* two intervals swapped, and true of an interval and itself.
C20_IntersectsIsContainment ==
    pc = "returned" =>
        /\ result.value <=> (\/ StartsFirstAndOutlasts(First, Second)
                             \/ StartsFirstAndOutlasts(Second, First))
        /\ result.swapped = result.value
        /\ result.self

\* Intersects returned true for a first interval without from-date that holds
\* a second with both dates
C20_Witness ==
    /\ pc = "returned"
    /\ result.value
    /\ First.from = Null /\ First.to # Null
    /\ Second.from # Null /\ Second.to # Null /\ Second.to <= First.to

----------------------------------------------------------------------------
(* C14: the edit session *)

\* a write of a row of the calibration point feature class
IsWrite(event) ==
    event.op \in { "insertRow", "populate", "nullGeometry", "setGeometry" }

\* the number of events of one kind in the history of the run
Count(op) == Cardinality({ i \in 1..Len(log) : log[i].op = op })

\* the run is over: execute returned or an exception left it
RunOver == pc = "done" \/ pc = "raised"

\* C14: in every run of execute every write of a calibration point row (blank
\* insert, attribute populate, geometry null-out, geometry populate) comes
\* after the start of the edit session and before its stop, and the session
\* is started once and stopped once, the stop coming after the last write.
C14_WritesInsideOneEditSession ==
    /\ \A i \in 1..Len(log) :
           IsWrite(log[i]) =>
               /\ \E s \in 1..(i - 1) : log[s].op = "startEditing"
               /\ \A t \in 1..i : log[t].op # "stopEditing"
    /\ Count("startEditing") <= 1
    /\ Count("stopEditing") <= 1
    /\ RunOver => Count("startEditing") = 1 /\ Count("stopEditing") = 1

----------------------------------------------------------------------------
(* C15: what a run leaves alone *)

\* the row was in the feature class when the run began
PreExisting(oid) ==
    \A i \in 1..Len(log) : ~(log[i].op = "insertRow" /\ log[i].oid = oid)

\* the Z audit recorded a correction for the calibration point
ReceivedCorrection(oid) == \E c \in 1..Len(editedCps) : editedCps[c].Oid = oid

\* what a step of a run may do to a row that was there when the run began
RowKept(before, after) ==
    /\ after.Oid = before.Oid
    /\ after.RouteId = before.RouteId
    /\ after.M = before.M
    /\ after.FromDate = before.FromDate
    /\ after.ToDate = before.ToDate
    /\ after # before =>
           /\ ReceivedCorrection(before.Oid)
           /\ XYClose(after.X, before.X)
           /\ XYClose(after.Y, before.Y)

\* C15: a run deletes no route and no calibration point and writes no route:
\* the route records are unchanged, every calibration point that was there
\* before the run is there after it, and of such a point nothing changes but
\* the geometry of a point that received a Z correction (route id, measure and
\* dates stay, and the new X and Y are within XY tolerance of the old).
C15_RunKeepsWhatExisted ==
    [][ /\ routes' = routes
        /\ Len(cps') >= Len(cps)
        /\ \A n \in 1..Len(cps) : PreExisting(cps[n].Oid) => RowKept(cps[n], cps'[n])
      ]_vars

----------------------------------------------------------------------------
(* C16: the report *)

\* a list holds the elements of another, each as many times, in increasing
\* order
ListsInOrder(listed, list) ==
    /\ Len(listed) = Len(list)
    /\ \A x \in { list[n] : n \in 1..Len(list) } :
           Cardinality({ n \in 1..Len(listed) : listed[n] = x })
               = Cardinality({ n \in 1..Len(list) : list[n] = x })
    /\ \A n \in 1..(Len(listed) - 1) : listed[n] <= listed[n + 1]

\* C16: when a run completes and the NaN set or the non-monotonic set is not
\* empty the report is written and lists the routes of both sets in sorted
\* order, also when the run added no calibration point and corrected no Z.
C16_ExcludedRoutesReported ==
    (pc = "done" /\ (nanOids # << >> \/ nonMonotonicOids # << >>)) =>
        /\ Len(report) = 1
        /\ ListsInOrder(report[1].nan, nanOids)
        /\ ListsInOrder(report[1].nonMonotonic, nonMonotonicOids)

\* a run that changed no calibration point has reported two routes without
\* measures that the cursor gave in decreasing order of object id
C16_Witness ==
    /\ pc = "done"
    /\ Len(nanOids) = 2 /\ nanOids[1] > nanOids[2]
    /\ editedRouteOids = << >> /\ editedCpOids = << >>
    /\ Len(report) = 1

----------------------------------------------------------------------------
(* C17: the two sets of CheckForInvalidRoutes *)

\* the measure of a vertex is NaN or less than the measure of the vertex
\* before it, in vertex order across the parts
Fails(pts, i) == IsNaN(pts[i].M) \/ (i > 1 /\ pts[i].M < pts[i - 1].M)

\* the first such vertex, if any
FirstFailing(pts) ==
    { i \in 1..Len(pts) : Fails(pts, i) /\ \A k \in 1..(i - 1) : ~Fails(pts, k) }

\* the number of times an object id is in a list
Times(oid, list) == Cardinality({ n \in 1..Len(list) : list[n] = oid })

\* C17: CheckForInvalidRoutes classifies a route that has a geometry by its
\* first failing vertex, in part order and vertex order: the route is in the
\* NaN set iff the measure of that vertex is NaN, in the non-monotonic set iff
\* it is less than the measure of the vertex before (carried across parts);
\* no route is in both sets or twice in one, and a route without geometry is
\* in neither.
C17_ClassifiedByFirstFailingVertex ==
    Validated =>
        \A n \in 1..Len(routes) :
            /\ Times(routes[n].Oid, nanOids) + Times(routes[n].Oid, nonMonotonicOids) <= 1
            /\ routes[n].Geometry = Null => ~Excluded(routes[n].Oid)
            /\ routes[n].Geometry # Null =>
                   /\ InList(routes[n].Oid, nanOids) <=>
                          \E i \in FirstFailing(Flatten(Shape(routes[n].Geometry))) :
                              IsNaN(Flatten(Shape(routes[n].Geometry))[i].M)
                   /\ InList(routes[n].Oid, nonMonotonicOids) <=>
                          \E i \in FirstFailing(Flatten(Shape(routes[n].Geometry))) :
                              ~IsNaN(Flatten(Shape(routes[n].Geometry))[i].M)

\* a route whose first failing vertex begins its second part, with a measure
\* less than the end of the first part and a NaN measure after it, was put
\* in the non-monotonic set only
C17_Witness ==
    /\ pc = "GetRoutesWithLoops"
    /\ \E n \in 1..Len(routes) :
           /\ routes[n].Geometry # Null
           /\ Len(Shape(routes[n].Geometry)) = 2
           /\ FirstFailing(Flatten(Shape(routes[n].Geometry)))
                  = { Len(Shape(routes[n].Geometry)[1]) + 1 }
           /\ \E k \in 1..Len(Flatten(Shape(routes[n].Geometry))) :
                  IsNaN(Flatten(Shape(routes[n].Geometry))[k].M)
           /\ InList(routes[n].Oid, nonMonotonicOids)
           /\ ~InList(routes[n].Oid, nanOids)

----------------------------------------------------------------------------
(* C18: the spans of GetRoutesWithLoops *)

\* the route records of an object id
RowsOf(oid) == { n \in 1..Len(routes) : routes[n].Oid = oid }

\* two vertices of a route record, one before the other, have the measures
HasVerticesAt(row, fromM, toM) ==
    \E k \in 1..Len(Flatten(Shape(row.Geometry))) :
        \E j \in 1..(k - 1) :
            /\ Flatten(Shape(row.Geometry))[j].M = fromM
            /\ Flatten(Shape(row.Geometry))[k].M = toM

\* two spans are equal on route id, dates and measures
SameSpan(s, t) ==
    /\ s.RouteId = t.RouteId
    /\ s.FromDate = t.FromDate
    /\ s.ToDate = t.ToDate
    /\ s.FromM = t.FromM
    /\ s.ToM = t.ToM

\* in the scan of a route the vertex at position k met a vertex of pointIndex
\* that makes a loop with it
MetLoopVertex(row, trace, k) ==
    \E n \in 1..Len(trace.pointIndex) :
        /\ trace.pointIndex[n] < k
        /\ IsLoopPair(Flatten(Shape(row.Geometry))[trace.pointIndex[n]],
                      Flatten(Shape(row.Geometry))[k])

\* C18: in what GetRoutesWithLoops returns every span has FromM < ToM, FromM
\* the measure of the vertex seen earlier and ToM of the later one, and is of
\* a route record of neither exclusion set; no two spans of a route id are
\* equal on (RouteId, FromDate, ToDate, FromM, ToM); and a vertex that finds
\* only spans already recorded is appended to the seen list.
C18_SpansWellFormed ==
    Scanned =>
        /\ \A n \in 1..Len(routesWithLoops) :
               /\ routesWithLoops[n].FromM < routesWithLoops[n].ToM
               /\ ~Excluded(routesWithLoops[n].Oid)
               /\ \E r \in RowsOf(routesWithLoops[n].Oid) :
                      /\ routes[r].RouteId = routesWithLoops[n].RouteId
                      /\ HasVerticesAt(routes[r], routesWithLoops[n].FromM,
                                       routesWithLoops[n].ToM)
        /\ \A n, m \in 1..Len(routesWithLoops) :
               n # m => ~SameSpan(routesWithLoops[n], routesWithLoops[m])
        /\ \A t \in 1..Len(loopTrace) :
               \A r \in RowsOf(loopTrace[t].Oid) :
                   \A k \in 1..Len(Flatten(Shape(routes[r].Geometry))) :
                       ~InList(k, loopTrace[t].found)
                           => InList(k, loopTrace[t].pointIndex)

\* a vertex that met a loop vertex of the seen list found no new span and was
\* appended to the seen list
C18_Witness ==
    /\ Scanned
    /\ routesWithLoops # << >>
    /\ \E t \in 1..Len(loopTrace) :
           \E r \in RowsOf(loopTrace[t].Oid) :
               \E k \in 1..Len(Flatten(Shape(routes[r].Geometry))) :
                   /\ MetLoopVertex(routes[r], loopTrace[t], k)
                   /\ ~InList(k, loopTrace[t].found)
                   /\ InList(k, loopTrace[t].pointIndex)

----------------------------------------------------------------------------
(* C19: the measure tolerance of GetRoutesWithLoops *)

\* a span of the route record between the measures of two of its vertices
SpanBetween(row, from, to) ==
    \E n \in 1..Len(routesWithLoops) :
        /\ routesWithLoops[n].RouteId = row.RouteId
        /\ routesWithLoops[n].FromDate = row.FromDate
        /\ routesWithLoops[n].ToDate = row.ToDate
        /\ routesWithLoops[n].FromM = from.M
        /\ routesWithLoops[n].ToM = to.M

\* C19: for a valid route, whenever a vertex has X, Y and Z within tolerance
\* of a vertex seen earlier and their measures differ by more than the measure
\* tolerance, an absolute difference, what GetRoutesWithLoops returns holds a
\* span between the two measures, whatever the size of the measures.
C19_SpanForEveryLoopPair ==
    Scanned =>
        \A t \in 1..Len(loopTrace) :
            \A r \in RowsOf(loopTrace[t].Oid) :
                \A pair \in LoopPairs(Flatten(Shape(routes[r].Geometry))) :
                    InList(pair[1], loopTrace[t].pointIndex)
                        => SpanBetween(routes[r],
                                       Flatten(Shape(routes[r].Geometry))[pair[1]],
                                       Flatten(Shape(routes[r].Geometry))[pair[2]])

----------------------------------------------------------------------------
(* C21, C22: GetPoint *)

\* the vertices of the route GetPoint was called on, and the measure
Vertices == Flatten(Geoms[args[1]])
Target == args[2]

\* the vertices whose measure is within the measure tolerance of the target
VerticesAtTarget ==
    { k \in 1..Len(Vertices) : Abs(Vertices[k].M - Target) <= MTolerance }

\* the consecutive vertices with the target strictly between their measures
Bracketing ==
    { k \in 1..(Len(Vertices) - 1) :
        Vertices[k].M < Target /\ Target < Vertices[k + 1].M }

\* a point is on the straight segment from p to q at the fraction
\* (Target - p.M) / (q.M - p.M) of its length
AtFraction(point, p, q) ==
    /\ (point.X - p.X) * (q.M - p.M) = (q.X - p.X) * (Target - p.M)
    /\ (point.Y - p.Y) * (q.M - p.M) = (q.Y - p.Y) * (Target - p.M)
    /\ (point.Z - p.Z) * (q.M - p.M) = (q.Z - p.Z) * (Target - p.M)

\* C21: on a route of non-decreasing measures GetPoint returns a vertex whose
\* measure is within measure tolerance of the target, unchanged, if there is
\* one; otherwise, the target being strictly between the measures of two
\* consecutive vertices p and q, the point along the route between p and q at
\* the fraction (target - p.M) / (q.M - p.M), which is neither p nor q.
C21_VertexOrInterpolated ==
    pc = "gotPoint" =>
        /\ VerticesAtTarget # {} => \E k \in VerticesAtTarget : result = Vertices[k]
        /\ VerticesAtTarget = {} =>
               \A k \in Bracketing :
                   /\ AtFraction(result, Vertices[k], Vertices[k + 1])
                   /\ result # Vertices[k]
                   /\ result # Vertices[k + 1]

\* C22: when GetPoint finds no vertex of the target measure and no two
\* consecutive vertices to interpolate between, it returns the first vertex
\* of the route, whatever vertices it walked over.
C22_DefaultIsFirstPoint ==
    (/\ pc = "gotPoint"
     /\ \A k \in 1..Len(Vertices) : ~MClose(Vertices[k].M, Target)
     /\ Bracketing = {})
    => result = Vertices[1]

----------------------------------------------------------------------------
(* C23: one loop in two touching time slices *)

\* two valid time slices of one route id with one geometry, the second
\* beginning when the first ends
TouchingSlices(first, second) ==
    /\ first.RouteId = second.RouteId
    /\ first.Geometry # Null
    /\ first.Geometry = second.Geometry
    /\ first.ToDate # Null
    /\ first.ToDate = second.FromDate
    /\ ~Excluded(first.Oid)
    /\ ~Excluded(second.Oid)

\* C23: for a route id whose one loop is in two touching time slices [d1, d2)
\* and [d2, d3), no calibration point inside the loop in either,
\* GetCpRecordsToAdd returns exactly one record per measure and location, two
\* in all, each over [d1, d3), and no record that the merge marked as dropped
\* (Oid = -1).
C23_TouchingSlicesMerged ==
    Planned =>
        \A a, b \in 1..Len(routes) :
            (/\ Len(routes) = 2
             /\ TouchingSlices(routes[a], routes[b])
             /\ Cardinality(SpanSet) = 2
             /\ \A span \in SpanSet : PointsInside(span) = { })
            => /\ \A n \in 1..Len(cpRecordsToAdd) : cpRecordsToAdd[n].Oid # Dropped
               /\ Len(cpRecordsToAdd) = 2
               /\ \A n \in 1..Len(cpRecordsToAdd) :
                      /\ cpRecordsToAdd[n].FromDate = routes[a].FromDate
                      /\ cpRecordsToAdd[n].ToDate = routes[b].ToDate
               /\ \A n, m \in 1..Len(cpRecordsToAdd) :
                      n # m => cpRecordsToAdd[n].FromM # cpRecordsToAdd[m].FromM

----------------------------------------------------------------------------
(* C24: every pair of duplicate calibration points *)

\* a correction of the calibration point was recorded by the rule
CorrectedBy(oid, rule) ==
    \E c \in 1..Len(editedCps) : editedCps[c].Oid = oid /\ editedCps[c].Rule = rule

\* C24: in GetPointsAtZ every two calibration points of one route with
\* intersecting time intervals and X, Y within tolerance are a duplicate pair:
\* neither is checked by projection and the pair is handled by the duplicate
\* rule, for every such pair of the route and not only the first found of its
\* route id.
C24_EveryDuplicatePairHandled ==
    Audited =>
        \A p, q \in 1..Len(cps) :
            (/\ DuplicatePoints(cps[p], cps[q])
             /\ ~IsNaN(cps[p].M) /\ ~IsNaN(cps[q].M))
            => /\ ~CorrectedBy(cps[p].Oid, "projection")
               /\ \A n \in SlicesOf(cps[p]) :
                      Len(VerticesAt(routes[n], cps[p])) >= 2
                          => \/ CorrectedFrom(cps[p], routes[n],
                                              VerticesAt(routes[n], cps[p])[1])
                             \/ CorrectedFrom(cps[q], routes[n],
                                              VerticesAt(routes[n], cps[p])[1])

----------------------------------------------------------------------------
(* C25: the two-step writes *)

\* the writes of one kind in the history of the run, in order
Writes(op) == SelectSeq(log, LAMBDA event : event.op = op)

\* in the history every write of the first kind comes before every write of
\* the second kind
AllBefore(firstOp, secondOp) ==
    \A i, j \in 1..Len(log) :
        (log[i].op = firstOp /\ log[j].op = secondOp) => i < j

\* the rows of the calibration point feature class with the object id
RowsWithOid(oid) == { n \in 1..Len(cps) : cps[n].Oid = oid }

\* the row is as insertRow([None]) made it
IsBlank(row) == row.RouteId = NoRouteId \/ row.X = NoShape \/ row.NetworkId = Null

\* the row holds the values of the planned record
HoldsRecord(row, record) ==
    /\ row.RouteId = record.RouteId
    /\ row.FromDate = record.FromDate
    /\ row.ToDate = record.ToDate
    /\ row.M = record.FromM
    /\ row.NetworkId = NetworkId
    /\ << row.X, row.Y, row.Z >>
           = << record.Geometry.X, record.Geometry.Y, record.Geometry.Z >>

\* WriteToFeature has returned and the Z audit has not read the rows yet
Written == pc = "GetAdjustZValues" /\ routesWithLoops # << >>

\* UpdateCalibrationRecords has returned
Updated == pc = "StopEditSession" /\ editedCps # << >>

\* the calibration points with a recorded correction
CorrectedRows == { n \in 1..Len(cps) : ReceivedCorrection(cps[n].Oid) }

\* C25: WriteToFeature creates every blank record before it populates any,
\* creates exactly one record per planned insertion, each with an identity
\* the store assigned, and after a call that succeeded each created record
\* holds the route id, dates, measure, network id and geometry of its planned
\* insertion and none is blank; UpdateCalibrationRecords sets the geometry of
\* every corrected point to null before it populates any, and after a call
\* that succeeded each corrected point holds its recorded corrected geometry
\* and none is null.
C25_TwoStepWrites ==
    /\ AllBefore("insertRow", "populate")
    /\ AllBefore("nullGeometry", "setGeometry")
    /\ Written =>
           /\ Len(Writes("insertRow")) <= Len(cpRecordsToAdd)
           /\ \A i \in 1..Len(Writes("insertRow")) :
                  /\ Cardinality(RowsWithOid(Writes("insertRow")[i].oid)) = 1
                  /\ \A j \in 1..Len(Writes("insertRow")) :
                         Writes("insertRow")[i].oid = Writes("insertRow")[j].oid => i = j
                  /\ \A n \in RowsWithOid(Writes("insertRow")[i].oid) :
                         \/ cps[n] = BlankRow(cps[n].Oid)
                         \/ /\ Len(Writes("insertRow")) = Len(cpRecordsToAdd)
                            /\ HoldsRecord(cps[n], cpRecordsToAdd[i])
           /\ "WriteToFeature" \notin storeFailed =>
                  /\ Len(Writes("insertRow")) = Len(cpRecordsToAdd)
                  /\ \A i \in 1..Len(cpRecordsToAdd) :
                         \A n \in RowsWithOid(Writes("insertRow")[i].oid) :
                             HoldsRecord(cps[n], cpRecordsToAdd[i]) /\ ~IsBlank(cps[n])
    /\ Updated =>
           /\ Len(Writes("nullGeometry")) <= Cardinality(CorrectedRows)
           /\ \A i \in 1..Len(Writes("nullGeometry")) :
                  ReceivedCorrection(Writes("nullGeometry")[i].oid)
           /\ Writes("setGeometry") # << >> =>
                  Len(Writes("nullGeometry")) = Cardinality(CorrectedRows)
           /\ \A n \in CorrectedRows :
                  \/ cps[n].X # NoShape
                  \/ \E i \in 1..Len(Writes("nullGeometry")) :
                         Writes("nullGeometry")[i].oid = cps[n].Oid
           /\ "UpdateCalibrationRecords" \notin storeFailed =>
                  \A n \in CorrectedRows :
                      /\ cps[n].X # NoShape
                      /\ << cps[n].X, cps[n].Y, cps[n].Z >>
                             = << FirstAltered(editedCps, cps[n].Oid).X,
                                  FirstAltered(editedCps, cps[n].Oid).Y,
                                  FirstAltered(editedCps, cps[n].Oid).Z >>

\* a run that created and populated two records and corrected a point
C25_Witness ==
    /\ Updated
    /\ storeFailed = { }
    /\ Len(Writes("insertRow")) >= 2
    /\ Len(Writes("populate")) = Len(Writes("insertRow"))
    /\ Writes("setGeometry") # << >>
    /\ \E n \in CorrectedRows : \E i \in 1..Len(Writes("nullGeometry")) :
           Writes("nullGeometry")[i].oid = cps[n].Oid

----------------------------------------------------------------------------
(* C26: time slices without a from date *)

\* GetCpRecordsToAdd was called: it returned or raised
PlannerCalled == pc = "WriteToFeature" \/ pc = "raised"

\* C26: for a time slice of a route whose FromDate is null and that has a loop
\* span with no existing intermediate point, GetCpRecordsToAdd raises no error
\* and returns the two planned records of the span, their FromDate null.
C26_OpenFromDatePlanned ==
    PlannerCalled =>
        \A span \in SpanSet :
            (span.FromDate = Null /\ IntermediatePoints(span) = { })
            => /\ pc # "raised"
               /\ Cardinality({ n \in PlannedFor(span) :
                                   /\ cpRecordsToAdd[n].Oid = span.Oid
                                   /\ cpRecordsToAdd[n].FromDate = Null }) = 2

----------------------------------------------------------------------------
(* C27: what AdjustForTimeslices returns *)

\* the time intervals of two records are one interval, or the one ends where
\* the other starts
SameOrTouching(p, q) ==
    \/ p.FromDate = q.FromDate /\ p.ToDate = q.ToDate
    \/ p.ToDate # Null /\ p.ToDate = q.FromDate
    \/ q.ToDate # Null /\ q.ToDate = p.FromDate

\* three records over consecutive time slices [d1, d2), [d2, d3), [d3, d4)
Consecutive(a, b, c) ==
    /\ a.ToDate # Null /\ a.ToDate = b.FromDate
    /\ b.ToDate # Null /\ b.ToDate = c.FromDate

\* C27: of the records AdjustForTimeslices returns, no two that coincide in
\* measure and location have one time interval or touching time intervals;
\* three coinciding records over consecutive time slices [d1, d2), [d2, d3),
\* [d3, d4) are returned as one record over [d1, d4).
C27_NoTouchingRecordsLeft ==
    pc = "adjusted" =>
        /\ \A i, j \in 1..Len(adjOut) :
               (i # j /\ Coinciding(adjOut[i], adjOut[j]))
               => ~SameOrTouching(adjOut[i], adjOut[j])
        /\ \A a, b, c \in 1..Len(adjIn) :
               (/\ Len(adjIn) = 3
                /\ Coinciding(adjIn[a], adjIn[b])
                /\ Coinciding(adjIn[b], adjIn[c])
                /\ Consecutive(adjIn[a], adjIn[b], adjIn[c]))
               => /\ Len(adjOut) = 1
                  /\ Coinciding(adjOut[1], adjIn[a])
                  /\ adjOut[1].FromDate = adjIn[a].FromDate
                  /\ adjOut[1].ToDate = adjIn[c].ToDate

----------------------------------------------------------------------------
(* C28: the measures of the planned records *)

\* C28: every record GetCpRecordsToAdd plans for a loop span has a measure
\* strictly between FromM and ToM of that span, on a route with one loop span
\* and on a route with several.
C28_PlannedInsideItsSpan ==
    PlannerCalled =>
        \A i \in 1..Len(routesWithLoops) :
            \A k \in 1..Len(RecordsForSpan(routesWithLoops[i], intermediateCps)) :
                /\ routesWithLoops[i].FromM
                       < RecordsForSpan(routesWithLoops[i], intermediateCps)[k].FromM
                /\ RecordsForSpan(routesWithLoops[i], intermediateCps)[k].FromM
                       < routesWithLoops[i].ToM

----------------------------------------------------------------------------
(* C29: the time the returned records cover *)

\* AdjustForTimeslices was called: it returned or raised
AdjustCalled == pc = "adjusted" \/ pc = "raised"

\* C29: AdjustForTimeslices loses no time coverage: for every record of its
\* input the list it returns has a record of the same measure and location
\* whose time interval covers the whole interval of the input record, whatever
\* the order of the input and however its intervals are identical, touching
\* or overlapping.
C29_CoverageKept ==
    AdjustCalled =>
        \A i \in 1..Len(adjIn) :
            \E o \in 1..Len(adjOut) :
                /\ Coinciding(adjOut[o], adjIn[i])
                /\ CoversInterval(adjOut[o], adjIn[i])

----------------------------------------------------------------------------
(* C30: the order of the route feed *)

\* the route records in another order
Reordered(f) == [n \in 1..Len(routes) |-> routes[f[n]]]

\* the calibration points a list of corrections is for
Identities(altered) == { altered[c].Oid : c \in 1..Len(altered) }

\* the Z audit passes over the route record: it has a geometry with a first
\* measure and no NaN measure
PassedOn(row) ==
    /\ row.Geometry # Null
    /\ ~IsNaN(Shape(row.Geometry)[1][1].M)
    /\ ~InList(row.Oid, nanOids)

\* the number of times the route record is in the batch
TimesIn(batch, row) == Cardinality({ k \in 1..Len(batch) : batch[k] = row })

\* C30: the corrections GetAdjustZValuesForCalibrationPoints returns do not
\* depend on the order of the route records in the feed nor on where the
\* batches end: over the same routes and calibration points, fed in any other
\* order, the corrections are for the same calibration points; and every valid
\* route record is handed to GetPointsAtZ in exactly one batch.
C30_FeedOrderIrrelevant ==
    Audited =>
        /\ \A f \in Permutations(1..Len(routes)) :
               Identities(GetAdjustZValuesForCalibrationPoints(Reordered(f), cps, nanOids))
                   = Identities(editedCps)
        /\ \A n \in 1..Len(routes) :
               PassedOn(routes[n]) =>
                   /\ Cardinality({ b \in 1..Len(Batches(routes, 1, nanOids, << >>)) :
                          TimesIn(Batches(routes, 1, nanOids, << >>)[b], routes[n]) > 0 }) = 1
                   /\ \A b \in 1..Len(Batches(routes, 1, nanOids, << >>)) :
                          TimesIn(Batches(routes, 1, nanOids, << >>)[b], routes[n]) <= 1

====
